---- MODULE Spec2Model ----
(***************************************************************************)
(* Model of the ai-ext translation pipeline: the resolver                  *)
(* (packages/core), the compiler orchestrator (packages/compiler) and the  *)
(* hook compensation engine (packages/runtime).                            *)
(*                                                                         *)
(* Strings that the code inspects character by character (component names, *)
(* hook events, probe-operation names, matchers) are sequences of          *)
(* one-character strings.  Strings the code only passes around are TLA+    *)
(* strings.                                                                *)
(***************************************************************************)
EXTENDS Integers, Sequences, FiniteSets, TLC

VARIABLES
  \* ---- hook compensation engine (HookEngine) ----
  hooks,        \* HookEngine.hooks: the hook list given to the constructor
  pc,           \* position of the one modelled executeEmulatedHook call
  call,         \* the arguments of that call: [toolName, args]
  matching,     \* matchingHooks: indices into hooks, in list order
  hi,           \* index into matching of the hook whose handlers are running
  hj,           \* index of the handler within that hook
  proc,         \* the child process the call is awaiting (NoProc if none)
  result,       \* the HookExecutionResult the call returned (NoResult before)
  started,      \* history: <<hook index, handler index>> of every handler started
  finished,     \* history: number of started handlers whose result the call received
  exit2,        \* history: the child process that exited with code 2 (NoProc if none)
  failed,       \* history: some completed command handler failed (exit not 0/2, or raised)
  allExit0,     \* history: every completed handler was a command that exited 0
  thrown,       \* the error the call rejected with ("" if none)
  emuTools,     \* the EmulationTool list getEmulationTools returned (NoTools before)
  \* ---- resolver and compiler orchestrator ----
  disk,         \* the file system: manifest file, component files, rules tree, written output
  disk0,        \* history: the file system when compile was called
  opts,         \* the BuildOptions of the one modelled compile call
  cpc,          \* position of compile
  rpc,          \* position of resolveExtension
  kindIx,       \* the component kind resolveExtension is working on (index into Kinds)
  queue,        \* the discovered files of that kind not yet processed, in sorted order
  manifest,     \* the manifest loadManifest returned
  errors,       \* the ResolveError list
  lists,        \* the per-kind component lists built so far
  ir,           \* the ExtensionIR of the ResolveResult (NoIR before it is built)
  valid,        \* ResolveResult.valid
  failure,      \* the message of the error compile / resolveExtension threw ("" if none)
  adapterRuns,  \* history: number of target.compile(ir) calls
  outFiles,     \* the keys of the file map the adapter returned, in insertion order
  wi,           \* index into outFiles of the next file to write
  matterCache,  \* the cache of gray-matter: the texts matter() has been given in this process
  \* ---- target adapters called directly ----
  tir,          \* the ExtensionIR handed to the adapters
  tir0,         \* history: that IR before the first call
  outs,         \* history: per target, the TargetOutput of each compile call, in call order
  \* ---- library functions called directly ----
  fnIn,         \* the argument the functions are called with
  fnOut,        \* history: the value each function called so far returned, by function
  \* ---- probe invocations in flight together on one engine ----
  invs,         \* per invocation, the locals of its executeEmulatedHook call
  hooks0        \* history: the hook list the engine was constructed with

hookVars == <<hooks, pc, call, matching, hi, hj, proc, result, started,
              finished, exit2, failed, allExit0, thrown, emuTools>>

buildVars == <<disk, disk0, opts, cpc, rpc, kindIx, queue, manifest, errors,
               lists, ir, valid, failure, adapterRuns, outFiles, wi, matterCache>>

adapterVars == <<tir, tir0, outs>>

pureVars == <<fnIn, fnOut>>

concVars == <<invs, hooks0>>

vars == <<hookVars, buildVars, adapterVars, pureVars, concVars>>

-----------------------------------------------------------------------------
(* Characters and strings                                                  *)

Lowers == <<"a","b","c","d","e","f","g","h","i","j","k","l","m",
            "n","o","p","q","r","s","t","u","v","w","x","y","z">>
Uppers == <<"A","B","C","D","E","F","G","H","I","J","K","L","M",
            "N","O","P","Q","R","S","T","U","V","W","X","Y","Z">>
Digits == <<"0","1","2","3","4","5","6","7","8","9">>

Range(s) == { s[i] : i \in DOMAIN s }

IsLower(c) == c \in Range(Lowers)
IsUpper(c) == c \in Range(Uppers)
IsDigit(c) == c \in Range(Digits)

\* String.prototype.toLowerCase / toUpperCase on one character
LowerChar(c) ==
  IF IsUpper(c) THEN Lowers[CHOOSE i \in DOMAIN Uppers : Uppers[i] = c] ELSE c
UpperChar(c) ==
  IF IsLower(c) THEN Uppers[CHOOSE i \in DOMAIN Lowers : Lowers[i] = c] ELSE c

toLowerCase(s) == [i \in DOMAIN s |-> LowerChar(s[i])]

\* the first index at which pat occurs in s, 0 if it does not occur
IndexOf(s, pat) ==
  LET hits == { i \in 1..(Len(s) - Len(pat) + 1) :
                  SubSeq(s, i, i + Len(pat) - 1) = pat }
  IN IF hits = {} THEN 0 ELSE CHOOSE i \in hits : \A k \in hits : i <= k

\* String.prototype.includes
Includes(s, pat) == Len(pat) = 0 \/ IndexOf(s, pat) # 0

\* String.prototype.replace(pat, "") with a string pattern: removes the
\* first occurrence only, wherever it is
RemoveFirst(s, pat) ==
  LET i == IndexOf(s, pat)
  IN IF i = 0 THEN s
     ELSE SubSeq(s, 1, i - 1) \o SubSeq(s, i + Len(pat), Len(s))

\* String.prototype.split(sep) with a one-character separator
RECURSIVE Split(_, _)
Split(s, sep) ==
  LET i == IndexOf(s, <<sep>>)
  IN IF i = 0 THEN <<s>>
     ELSE <<SubSeq(s, 1, i - 1)>> \o Split(SubSeq(s, i + 1, Len(s)), sep)

\* Array.prototype.join("")
RECURSIVE Concat(_)
Concat(ss) == IF ss = <<>> THEN <<>> ELSE Head(ss) \o Concat(Tail(ss))

\* Map.set keeps the position of the first insertion of a key
RECURSIVE Dedup(_)
Dedup(xs) ==
  IF xs = <<>> THEN <<>>
  ELSE LET init == Dedup(SubSeq(xs, 1, Len(xs) - 1))
           last == xs[Len(xs)]
       IN IF last \in Range(init) THEN init ELSE Append(init, last)

-----------------------------------------------------------------------------
(* Hook definitions given to the engine                                    *)

Undefined == "undefined"

EvPreToolUse   == <<"P","r","e","T","o","o","l","U","s","e">>
EvSessionStart == <<"S","e","s","s","i","o","n","S","t","a","r","t">>
EvPostToolUse  == <<"P","o","s","t","T","o","o","l","U","s","e">>
EvPostToolUseFailure == EvPostToolUse \o <<"F","a","i","l","u","r","e">>

ToolPrefix == <<"a","i","-","e","x","t","_","h","o","o","k","_">>

ProbePreToolUse   == ToolPrefix \o <<"p","r","e","-","t","o","o","l","-","u","s","e">>
ProbeSessionStart == ToolPrefix \o <<"s","e","s","s","i","o","n","-","s","t","a","r","t">>
ProbeBare         == <<"p","r","e","-","t","o","o","l","-","u","s","e">>
ProbeUnknown      == ToolPrefix \o <<"s","t","o","p">>
ProbePostToolUse  == ToolPrefix \o <<"p","o","s","t","-","t","o","o","l","-","u","s","e">>

\* matchers: "" stands for a hook that declares none (h.matcher is falsy
\* either way)
NoMatcher    == <<>>
MEdit        == <<"E","d","i","t">>
MEditOrWrite == <<"E","d","i","t","|","W","r","i","t","e">>
MUnclosed    == <<"(">>
MAnchored    == <<"^","(","E","d","i","t","|","W","r","i","t","e",")","$">>

SEdit  == <<"E","d","i","t">>
SWrite == <<"W","r","i","t","e">>
SBash  == <<"B","a","s","h">>

CommandHandler == [type |-> "command", command |-> "sh-script", prompt |-> Undefined, timeout |-> 30]
EmptyCommandHandler == [type |-> "command", command |-> "", prompt |-> Undefined, timeout |-> 30]
PromptHandler  == [type |-> "prompt",  command |-> Undefined, prompt |-> "check it", timeout |-> Undefined]

\* fallback holds hook.fallback?.strategy: Undefined for a hook that declares
\* no fallback
MkHookFb(ev, m, hs, strategy) ==
  [event |-> ev, matcher |-> m, handlers |-> hs, fallback |-> strategy]

MkHook(ev, m, hs) == MkHookFb(ev, m, hs, Undefined)

HookSamples ==
  { MkHook(EvPreToolUse,   NoMatcher,    <<CommandHandler>>),
    MkHook(EvPreToolUse,   MEdit,        <<CommandHandler, CommandHandler>>),
    MkHook(EvPreToolUse,   MEditOrWrite, <<CommandHandler>>),
    MkHook(EvPreToolUse,   MUnclosed,    <<CommandHandler>>),
    MkHook(EvPreToolUse,   MAnchored,    <<CommandHandler>>),
    MkHook(EvPreToolUse,   MEdit,        <<PromptHandler, CommandHandler>>),
    MkHook(EvSessionStart, MEdit,        <<CommandHandler>>),
    MkHook(EvSessionStart, NoMatcher,    <<EmptyCommandHandler>>),
    MkHookFb(EvPreToolUse,  NoMatcher, <<CommandHandler>>, "mcp-tool"),
    MkHookFb(EvPostToolUse, NoMatcher, <<CommandHandler>>, "ignore"),
    MkHookFb(EvPostToolUseFailure, NoMatcher, <<CommandHandler>>, "skill-injection") }

MaxHooks == 2

SeqsUpTo(S, n) == UNION { [1..k -> S] : k \in 0..n }

HookLists == SeqsUpTo(HookSamples, MaxHooks)

\* args of a probe invocation: undefined, an object without toolName, or an
\* object with a toolName ("" is a falsy toolName)
NoArgs == [defined |-> FALSE, hasToolName |-> FALSE, toolName |-> <<>>]
ArgsWithout == [defined |-> TRUE, hasToolName |-> FALSE, toolName |-> <<>>]
ArgsTool(s) == [defined |-> TRUE, hasToolName |-> TRUE, toolName |-> s]

ArgValues == { NoArgs, ArgsWithout, ArgsTool(SEdit), ArgsTool(SWrite), ArgsTool(SBash) }
ProbeNames ==
  { ProbePreToolUse, ProbeSessionStart, ProbeBare, ProbeUnknown, ProbePostToolUse }

-----------------------------------------------------------------------------
(* HookEngine.executeEmulatedHook and executeHandler                       *)

\* slugToEvent: kebab-case back to PascalCase
CapitalizeNothing(w) == w
CapitalizeWord(w) == IF w = <<>> THEN <<>> ELSE <<UpperChar(Head(w))>> \o Tail(w)
slugToEvent(slug) ==
  LET words == Split(slug, "-")
  IN Concat([i \in DOMAIN words |-> CapitalizeWord(words[i])])

\* UTF-16 code-unit order of the characters of the model
CharOrder ==
  <<"\t", "\n", " ", "$", "(", ")", "*", "+", "-", ".", "/">> \o Digits \o <<"?">>
  \o Uppers \o <<"[", "]", "^", "_">> \o Lowers \o <<"|">>
CharCode(c) == CHOOSE i \in DOMAIN CharOrder : CharOrder[i] = c

\* Regular expressions as new RegExp(source) reads them (no flags), for
\* sources over the characters of CharOrder: literals, ".", "^", "$",
\* alternation, groups, character classes with ranges and negation, and the
\* quantifiers "*", "+", "?" with their lazy forms.  p is the source, s the
\* subject; positions are 1-based.
Quantifiers == {"*", "+", "?"}

\* the index of the "]" that closes the class opened at k (the first one
\* after k), 0 if there is none
ClassEnd(p, k) ==
  LET closers == { j \in (k + 1)..Len(p) : p[j] = "]" }
  IN IF closers = {} THEN 0 ELSE CHOOSE j \in closers : \A m \in closers : j <= m

\* scanning from k inside d open groups: the index of the ")" that closes
\* the outermost of them, 0 if there is none
RECURSIVE GroupEnd(_, _, _)
GroupEnd(p, k, d) ==
  IF k > Len(p) THEN 0
  ELSE IF p[k] = "["
    THEN (IF ClassEnd(p, k) = 0 THEN 0 ELSE GroupEnd(p, ClassEnd(p, k) + 1, d))
  ELSE IF p[k] = "(" THEN GroupEnd(p, k + 1, d + 1)
  ELSE IF p[k] = ")" THEN (IF d = 1 THEN k ELSE GroupEnd(p, k + 1, d - 1))
  ELSE GroupEnd(p, k + 1, d)

\* the index of the last character of the atom that starts at k, 0 if the
\* atom is not terminated
AtomEnd(p, k) ==
  IF p[k] = "(" THEN GroupEnd(p, k + 1, 1)
  ELSE IF p[k] = "[" THEN ClassEnd(p, k)
  ELSE k

\* the index after the quantifier (and its lazy mark) that follows the atom
\* ending at e; e + 1 if no quantifier follows
AfterQuantifier(p, e) ==
  IF e + 1 <= Len(p) /\ p[e + 1] \in Quantifiers
    THEN (IF e + 2 <= Len(p) /\ p[e + 2] = "?" THEN e + 3 ELSE e + 2)
    ELSE e + 1

\* the items of a class between from and to: a range is out of order
RECURSIVE ClassThrows(_, _, _)
ClassThrows(p, from, to) ==
  IF from > to THEN FALSE
  ELSE IF from + 2 <= to /\ p[from + 1] = "-"
    THEN CharCode(p[from]) > CharCode(p[from + 2]) \/ ClassThrows(p, from + 3, to)
    ELSE ClassThrows(p, from + 1, to)

\* the items of a class between from and to hold the character c
RECURSIVE ClassHas(_, _, _, _)
ClassHas(p, from, to, c) ==
  IF from > to THEN FALSE
  ELSE IF from + 2 <= to /\ p[from + 1] = "-"
    THEN \/ CharCode(p[from]) <= CharCode(c) /\ CharCode(c) <= CharCode(p[from + 2])
         \/ ClassHas(p, from + 3, to, c)
    ELSE p[from] = c \/ ClassHas(p, from + 1, to, c)

ClassNegated(p, k, e) == k + 1 < e /\ p[k + 1] = "^"

ClassFirst(p, k, e) == IF ClassNegated(p, k, e) THEN k + 2 ELSE k + 1

\* the terms of p from k up to to are not a pattern: a quantifier with
\* nothing to repeat, an unmatched ")", an unterminated or invalid group,
\* an unterminated class or a range out of order
RECURSIVE TermsThrow(_, _, _)
TermsThrow(p, k, to) ==
  IF k > to THEN FALSE
  ELSE IF p[k] \in Quantifiers \/ p[k] = ")" THEN TRUE
  ELSE IF p[k] \in {"|", "^", "$"} THEN TermsThrow(p, k + 1, to)
  ELSE IF p[k] = "("
    THEN LET e == GroupEnd(p, k + 1, 1)
         IN \/ e = 0
            \/ p[k + 1] = "?"
            \/ TermsThrow(p, k + 1, e - 1)
            \/ TermsThrow(p, AfterQuantifier(p, e), to)
  ELSE IF p[k] = "["
    THEN LET e == ClassEnd(p, k)
         IN \/ e = 0
            \/ ClassThrows(p, ClassFirst(p, k, e), e - 1)
            \/ TermsThrow(p, AfterQuantifier(p, e), to)
  ELSE TermsThrow(p, AfterQuantifier(p, k), to)

\* new RegExp(pattern) raises a SyntaxError
RegExpThrows(pattern) == TermsThrow(pattern, 1, Len(pattern))

\* the index of the first "|" between k and to that is outside every group
\* and class, 0 if there is none
RECURSIVE FirstBar(_, _, _)
FirstBar(p, k, to) ==
  IF k > to THEN 0
  ELSE IF p[k] = "|" THEN k
  ELSE IF AtomEnd(p, k) = 0 THEN 0
  ELSE FirstBar(p, AtomEnd(p, k) + 1, to)

\* the positions of s at which a match that starts at i can end, for the
\* disjunction, the alternative and the atom of p between from and to
RECURSIVE DisjEnds(_, _, _, _, _)
RECURSIVE TermsEnds(_, _, _, _, _)
RECURSIVE AtomEnds(_, _, _, _, _)
RECURSIVE Repeated(_, _, _, _, _, _)

DisjEnds(p, from, to, s, i) ==
  LET bar == FirstBar(p, from, to)
  IN IF bar = 0 THEN TermsEnds(p, from, to, s, i)
     ELSE TermsEnds(p, from, bar - 1, s, i) \cup DisjEnds(p, bar + 1, to, s, i)

AtomEnds(p, k, e, s, i) ==
  IF p[k] = "(" THEN DisjEnds(p, k + 1, e - 1, s, i)
  ELSE IF p[k] = "^" THEN (IF i = 1 THEN {i} ELSE {})
  ELSE IF p[k] = "$" THEN (IF i = Len(s) + 1 THEN {i} ELSE {})
  ELSE IF i > Len(s) THEN {}
  ELSE IF p[k] = "["
    THEN (IF ClassHas(p, ClassFirst(p, k, e), e - 1, s[i]) # ClassNegated(p, k, e)
            THEN {i + 1} ELSE {})
  ELSE IF p[k] = "." THEN (IF s[i] # "\n" THEN {i + 1} ELSE {})
  ELSE IF p[k] = s[i] THEN {i + 1} ELSE {}

\* the ends reached from the positions in ends by n more rounds of the atom
Repeated(p, k, e, s, ends, n) ==
  IF n = 0 THEN ends
  ELSE Repeated(p, k, e, s,
                ends \cup UNION { AtomEnds(p, k, e, s, j) : j \in ends }, n - 1)

TermsEnds(p, k, to, s, i) ==
  IF k > to THEN {i}
  ELSE LET e == AtomEnd(p, k)
           q == IF e + 1 <= to THEN p[e + 1] ELSE ""
           once == AtomEnds(p, k, e, s, i)
           ends == CASE q = "*" -> Repeated(p, k, e, s, {i}, Len(s) + 1)
                     [] q = "+" -> Repeated(p, k, e, s, once, Len(s) + 1)
                     [] q = "?" -> {i} \cup once
                     [] OTHER   -> once
       IN UNION { TermsEnds(p, AfterQuantifier(p, e), to, s, j) : j \in ends }

\* regex.test(subject): an unanchored search
RegExpTest(pattern, subject) ==
  \E i \in 1..(Len(subject) + 1) : DisjEnds(pattern, 1, Len(pattern), subject, i) # {}

\* args?.toolName is truthy
HasSubject(a) == a.defined /\ a.hasToolName /\ a.toolName # <<>>

\* the hook named by toolName: the event recovered from the probe name
ProbeEvent(toolName) == slugToEvent(RemoveFirst(toolName, ToolPrefix))

\* the filter callback reaches new RegExp(h.matcher) for this hook
CompilesMatcher(h, event, a) ==
  h.event = event /\ h.matcher # <<>> /\ HasSubject(a)

\* the filter callback of executeEmulatedHook (for a hook whose matcher compiles)
HookMatches(h, event, a) ==
  /\ h.event = event
  /\ CompilesMatcher(h, event, a) => RegExpTest(h.matcher, a.toolName)

\* this.hooks.filter(...) raises when some hook's matcher is compiled and is
\* not a regular expression
FilterThrows(hs, event, a) ==
  \E i \in DOMAIN hs : CompilesMatcher(hs[i], event, a) /\ RegExpThrows(hs[i].matcher)

RECURSIVE FilterFrom(_, _, _, _)
FilterFrom(hs, i, event, a) ==
  IF i > Len(hs) THEN <<>>
  ELSE (IF HookMatches(hs[i], event, a) THEN <<i>> ELSE <<>>)
       \o FilterFrom(hs, i + 1, event, a)

matchingHooks(hs, event, a) == FilterFrom(hs, 1, event, a)

NoProc == [spawned |-> FALSE, exits |-> FALSE, code |-> 0, stdout |-> "", stderr |-> ""]
Exit(c, out, err) == [spawned |-> TRUE, exits |-> TRUE, code |-> c, stdout |-> out, stderr |-> err]
Hang == [spawned |-> TRUE, exits |-> FALSE, code |-> 0, stdout |-> "", stderr |-> ""]

\* what a spawned child process can do: exit with a code and output, or never exit
ProcBehaviours ==
  { Exit(0, "", ""), Exit(0, "lint ok", ""),
    Exit(2, "", "blocked"), Exit(2, "from stdout", ""), Exit(2, "", ""),
    Exit(2, "from stdout", "blocked"),
    Exit(1, "", "boom"), Hang }

NoResult == [allowed |-> TRUE, reason |-> "<none>", context |-> "<none>"]
Res(al, re, ctx) == [allowed |-> al, reason |-> re, context |-> ctx]

OrElse(a, b) == IF a # "" THEN a ELSE b

ExitWarning(code) ==
  CASE code = 1 -> "Hook warning: exit code 1"
    [] OTHER    -> "Hook warning: exit code other"

\* executeHandler: the result for a child process that exited
ExitResultStdoutFirst(p) ==
  IF p.code = 0 THEN Res(TRUE, Undefined, IF p.stdout # "" THEN p.stdout ELSE Undefined)
  ELSE IF p.code = 2
    THEN Res(FALSE, OrElse(p.stdout, OrElse(p.stderr, "Hook blocked the action")), Undefined)
    ELSE Res(TRUE, ExitWarning(p.code), Undefined)

ExitResult(p) ==
  IF p.code = 0 THEN Res(TRUE, Undefined, IF p.stdout # "" THEN p.stdout ELSE Undefined)
  ELSE IF p.code = 2
    THEN Res(FALSE, OrElse(p.stderr, OrElse(p.stdout, "Hook blocked the action")), Undefined)
    ELSE Res(TRUE, ExitWarning(p.code), Undefined)

\* executeHandler: the catch branch
RaiseResult == Res(TRUE, "Hook execution error: spawn failed", Undefined)

\* executeHandler: prompt / agent handlers (and command handlers without a command)
PassThroughResult == Res(TRUE, "Hook type not yet supported in runtime", Undefined)

IsCommand(h) == h.type = "command" /\ h.command # "" /\ h.command # Undefined

\* the next position of the nested for loops at or after (i, j); i beyond
\* the matching list means both loops are exhausted
RECURSIVE LoopPos(_, _, _, _)
LoopPos(hs, m, i, j) ==
  IF i > Len(m) THEN <<i, 1>>
  ELSE IF j > Len(hs[m[i]].handlers) THEN LoopPos(hs, m, i + 1, 1)
  ELSE <<i, j>>

\* executeEmulatedHook after `await this.executeHandler(...)` delivers r:
\* return a denial at once, otherwise go on with the loops and return
\* { allowed: true } when they are exhausted
ResumeNoShortCircuit(r) ==
  LET pos == LoopPos(hooks, matching, hi, hj + 1)
  IN /\ finished' = finished + 1
     /\ proc' = NoProc
     /\ hi' = pos[1]
     /\ hj' = pos[2]
     /\ IF pos[1] > Len(matching)
          THEN pc' = "returned" /\ result' = Res(TRUE, Undefined, Undefined)
          ELSE pc' = "loop" /\ result' = result

Resume(r) ==
  LET pos == LoopPos(hooks, matching, hi, hj + 1)
  IN /\ finished' = finished + 1
     /\ proc' = NoProc
     /\ IF ~r.allowed
          THEN /\ pc' = "returned"
               /\ result' = r
               /\ UNCHANGED <<hi, hj>>
          ELSE /\ hi' = pos[1]
               /\ hj' = pos[2]
               /\ IF pos[1] > Len(matching)
                    THEN pc' = "returned" /\ result' = Res(TRUE, Undefined, Undefined)
                    ELSE pc' = "loop" /\ result' = result

\* event.replace(/([A-Z])/g, "-$1")
Hyphenate(event) ==
  Concat([i \in DOMAIN event |->
            IF IsUpper(event[i]) THEN <<"-", event[i]>> ELSE <<event[i]>>])

\* .replace(/^-/, "")
StripLeadingDash(s) == IF s # <<>> /\ Head(s) = "-" THEN Tail(s) ELSE s

\* the slug getEmulationTools derives from an event name
eventToSlug(event) == StripLeadingDash(toLowerCase(Hyphenate(event)))

\* a hook getEmulationTools does not skip
EmulatedAlways(h) == TRUE
Emulated(h) == h.fallback # "ignore" /\ h.fallback # "skill-injection"

EventOf(h) == h.event

\* the keys of eventGroups, in insertion order
EventGroupKeys(hs) ==
  LET kept == SelectSeq(hs, Emulated)
  IN Dedup([i \in DOMAIN kept |-> EventOf(kept[i])])

\* the hooks eventGroups holds under an event
EventGroup(hs, event) ==
  LET OfEvent(h) == Emulated(h) /\ h.event = event
  IN SelectSeq(hs, OfEvent)

\* one EmulationTool: description is built from the event and its hooks,
\* inputSchema from the event
EmulationTool(event, group) ==
  [name |-> ToolPrefix \o eventToSlug(event), event |-> event, hooks |-> group]

getEmulationTools(hs) ==
  [k \in DOMAIN EventGroupKeys(hs) |->
     EmulationTool(EventGroupKeys(hs)[k], EventGroup(hs, EventGroupKeys(hs)[k]))]

NoTools == [called |-> FALSE, tools |-> <<>>]

InitHook ==
  /\ hooks \in HookLists
  /\ emuTools = NoTools
  /\ pc = "idle"
  /\ call = [toolName |-> <<>>, args |-> NoArgs]
  /\ matching = <<>>
  /\ hi = 1
  /\ hj = 1
  /\ proc = NoProc
  /\ result = NoResult
  /\ started = <<>>
  /\ finished = 0
  /\ exit2 = NoProc
  /\ failed = FALSE
  /\ allExit0 = TRUE
  /\ thrown = ""

\* executeEmulatedHook(toolName, args) up to the handler loops
Invoke(toolName, a) ==
  LET event == ProbeEvent(toolName)
      m == matchingHooks(hooks, event, a)
      pos == LoopPos(hooks, m, 1, 1)
  IN /\ pc = "idle"
     /\ call' = [toolName |-> toolName, args |-> a]
     /\ IF FilterThrows(hooks, event, a)
          THEN /\ pc' = "thrown"
               /\ thrown' = "SyntaxError: Invalid regular expression"
               /\ UNCHANGED <<matching, hi, hj, result>>
          ELSE /\ matching' = m
               /\ thrown' = ""
               /\ hi' = pos[1]
               /\ hj' = pos[2]
               /\ IF m = <<>>
                    THEN pc' = "returned" /\ result' = Res(TRUE, "No matching hooks", Undefined)
                    ELSE IF pos[1] > Len(m)
                      THEN pc' = "returned" /\ result' = Res(TRUE, Undefined, Undefined)
                      ELSE pc' = "loop" /\ result' = result
     /\ UNCHANGED <<hooks, proc, started, finished, exit2, failed, allExit0>>
     /\ UNCHANGED <<buildVars, adapterVars, pureVars, concVars, emuTools>>

\* executeHandler(handler, args) up to its first await or its return, for
\* the handler the loops have reached; Bun.spawn either raises or starts a
\* process.  A handler that returns without awaiting leaves the caller
\* suspended at `await this.executeHandler(...)` until the promise is
\* delivered.
StartHandler ==
  /\ pc = "loop"
  /\ LET h == hooks[matching[hi]].handlers[hj]
     IN /\ started' = Append(started, <<matching[hi], hj>>)
        /\ IF IsCommand(h)
             THEN \/ /\ failed' = TRUE
                     /\ allExit0' = FALSE
                     /\ proc' = NoProc
                     /\ pc' = "settled"
                  \/ \E b \in ProcBehaviours :
                       /\ proc' = b
                       /\ pc' = "await"
                       /\ UNCHANGED <<failed, allExit0>>
             ELSE /\ allExit0' = FALSE
                  /\ failed' = failed
                  /\ proc' = NoProc
                  /\ pc' = "settled"
  /\ UNCHANGED <<hooks, call, matching, hi, hj, result, finished, exit2, thrown>>
  /\ UNCHANGED <<buildVars, adapterVars, pureVars, concVars, emuTools>>

\* `await proc.exited` resolves: executeHandler goes on to
\* `await new Response(proc.stdout).text()`
HandlerExits ==
  /\ pc = "await"
  /\ proc.exits
  /\ failed' = (failed \/ proc.code \notin {0, 2})
  /\ allExit0' = (allExit0 /\ proc.code = 0)
  /\ exit2' = IF proc.code = 2 THEN proc ELSE exit2
  /\ pc' = "stdout"
  /\ UNCHANGED <<hooks, call, matching, hi, hj, proc, result, started, finished, thrown>>
  /\ UNCHANGED <<buildVars, adapterVars, pureVars, concVars, emuTools>>

\* the text of stdout arrives: for exit code 2 executeHandler goes on to
\* `await new Response(proc.stderr).text()`, otherwise it returns
StdoutRead ==
  /\ pc = "stdout"
  /\ pc' = IF proc.code = 2 THEN "stderr" ELSE "settled"
  /\ UNCHANGED <<hooks, call, matching, hi, hj, proc, result, started, finished,
                 exit2, failed, allExit0, thrown>>
  /\ UNCHANGED <<buildVars, adapterVars, pureVars, concVars, emuTools>>

\* the text of stderr arrives: executeHandler returns the denial
StderrRead ==
  /\ pc = "stderr"
  /\ pc' = "settled"
  /\ UNCHANGED <<hooks, call, matching, hi, hj, proc, result, started, finished,
                 exit2, failed, allExit0, thrown>>
  /\ UNCHANGED <<buildVars, adapterVars, pureVars, concVars, emuTools>>

\* what executeHandler returns for handler h, p being the process it spawned
\* (NoProc if it spawned none)
Settled(h, p) ==
  IF ~IsCommand(h) THEN PassThroughResult
  ELSE IF ~p.spawned THEN RaiseResult
  ELSE ExitResult(p)

\* the promise of executeHandler is delivered: executeEmulatedHook resumes
\* after its await, up to the next handler or the return
HandlerReturns ==
  /\ pc = "settled"
  /\ Resume(Settled(hooks[matching[hi]].handlers[hj], proc))
  /\ UNCHANGED <<hooks, call, matching, started, exit2, failed, allExit0, thrown>>
  /\ UNCHANGED <<buildVars, adapterVars, pureVars, concVars, emuTools>>

\* the caller has its answer; the engine keeps only the hook list
NextInvocation ==
  /\ pc \in {"returned", "thrown"}
  /\ pc' = "idle"
  /\ call' = [toolName |-> <<>>, args |-> NoArgs]
  /\ matching' = <<>>
  /\ hi' = 1
  /\ hj' = 1
  /\ proc' = NoProc
  /\ result' = NoResult
  /\ started' = <<>>
  /\ finished' = 0
  /\ exit2' = NoProc
  /\ failed' = FALSE
  /\ allExit0' = TRUE
  /\ thrown' = ""
  /\ UNCHANGED hooks
  /\ UNCHANGED <<buildVars, adapterVars, pureVars, concVars, emuTools>>

InvokeAny == \E n \in ProbeNames, a \in ArgValues : Invoke(n, a)

\* getEmulationTools(), called on an engine that is not serving a probe
GetEmulationTools ==
  /\ pc = "idle"
  /\ ~emuTools.called
  /\ emuTools' = [called |-> TRUE, tools |-> getEmulationTools(hooks)]
  /\ UNCHANGED <<hooks, pc, call, matching, hi, hj, proc, result, started,
                 finished, exit2, failed, allExit0, thrown>>
  /\ UNCHANGED <<buildVars, adapterVars, pureVars, concVars>>

NextHook ==
  \/ InvokeAny
  \/ GetEmulationTools
  \/ StartHandler
  \/ HandlerExits
  \/ StdoutRead
  \/ StderrRead
  \/ HandlerReturns
  \/ NextInvocation

-----------------------------------------------------------------------------
(* Untyped values: what YAML / frontmatter parsing yields and what the      *)
(* `unknown`-typed validators receive                                      *)

Undef    == [type |-> "undefined"]
Null     == [type |-> "null"]
\* a string the code inspects: a sequence of characters
Str(s)   == [type |-> "string", str |-> s]
\* a string of which the code only takes the length: a description
Text(n)  == [type |-> "string", len |-> n]
\* a string the code only compares with literals: an enumeration tag, a
\* command line, a version
Lit(s)   == [type |-> "string", lit |-> s]
Num(n)   == [type |-> "number", num |-> n]
\* a number that is not an integer: m * 10^e with e < 0 and m not a multiple
\* of 10; Infinity (sign 1 or -1) and NaN
Frac(m, e) == [type |-> "number", num |-> m, exp |-> e]
Infinity(sign) == [type |-> "number", num |-> sign, special |-> "Infinity"]
NaN == [type |-> "number", num |-> 0, special |-> "NaN"]
Bool(b)  == [type |-> "boolean", bool |-> b]
Arr(xs)  == [type |-> "array", items |-> xs]
\* an object with named properties; a property that is not set is absent
Obj(f)   == [type |-> "object", fields |-> f]
\* an object used as a map: its entries in the order in which the keys were
\* added, each key once
Map(es)  == [type |-> "map", entries |-> es]

\* JavaScript truthiness
Truthy(v) ==
  CASE v.type = "undefined" -> FALSE
    [] v.type = "null"      -> FALSE
    [] v.type = "string"    -> IF "lit" \in DOMAIN v THEN v.lit # ""
                               ELSE IF "len" \in DOMAIN v THEN v.len # 0
                               ELSE v.str # <<>>
    [] v.type = "number"    -> v.num # 0
    [] v.type = "boolean"   -> v.bool
    [] OTHER                -> TRUE

\* the typeof operator
TypeOf(v) ==
  CASE v.type \in {"null", "array", "object", "map"} -> "object"
    [] OTHER -> v.type

IsArray(v) == v.type = "array"
IsNullish(v) == v.type \in {"undefined", "null"}

\* property access v.k on a value that is not null or undefined
Get(v, k) ==
  IF v.type = "object" /\ k \in DOMAIN v.fields THEN v.fields[k] ELSE Undef

\* a || b  and  a ?? b
Or(a, b) == IF Truthy(a) THEN a ELSE b
Coalesce(a, b) == IF IsNullish(a) THEN b ELSE a

\* object spread { ...a, ...b }
Spread(f, g) == [k \in DOMAIN f \cup DOMAIN g |-> IF k \in DOMAIN g THEN g[k] ELSE f[k]]

-----------------------------------------------------------------------------
(* packages/schema validators                                              *)

MAX_NAME_LENGTH == 64
MAX_DESCRIPTION_LENGTH == 1024

VALID_HOOK_EVENTS ==
  { <<"S","e","s","s","i","o","n","S","t","a","r","t">>,
    <<"S","e","s","s","i","o","n","E","n","d">>,
    <<"U","s","e","r","P","r","o","m","p","t","S","u","b","m","i","t">>,
    <<"P","r","e","T","o","o","l","U","s","e">>,
    <<"P","o","s","t","T","o","o","l","U","s","e">>,
    <<"P","o","s","t","T","o","o","l","U","s","e","F","a","i","l","u","r","e">>,
    <<"P","e","r","m","i","s","s","i","o","n","R","e","q","u","e","s","t">>,
    <<"S","u","b","a","g","e","n","t","S","t","a","r","t">>,
    <<"S","u","b","a","g","e","n","t","S","t","o","p">>,
    <<"N","o","t","i","f","i","c","a","t","i","o","n">>,
    <<"S","t","o","p">>,
    <<"T","a","s","k","C","o","m","p","l","e","t","e","d">>,
    <<"P","r","e","C","o","m","p","a","c","t">>,
    <<"F","i","l","e","E","d","i","t","e","d">>,
    <<"F","i","l","e","W","a","t","c","h","e","r","U","p","d","a","t","e","d">> }
VALID_HOOK_HANDLER_TYPES == { "command", "prompt", "agent" }
VALID_FALLBACK_STRATEGIES == { "mcp-tool", "skill-injection", "ignore" }
VALID_PERMISSION_MODES ==
  { "default", "acceptEdits", "dontAsk", "plan", "delegate", "bypassPermissions" }
VALID_MEMORY_SCOPES == { "user", "project", "local", "session" }
VALID_TOOL_IMPL_TYPES == { "command", "script", "mcp-proxy" }

\* NAME_PATTERN = /^[a-z][a-z0-9-]*$/
NamePatternTest(s) ==
  /\ Len(s) >= 1
  /\ IsLower(s[1])
  /\ \A i \in 2..Len(s) : IsLower(s[i]) \/ IsDigit(s[i]) \/ s[i] = "-"

Finding(path, message, sev) == [path |-> path, message |-> message, severity |-> sev]
error(path, message) == Finding(path, message, "error")
warning(path, message) == Finding(path, message, "warning")

ok == [valid |-> TRUE, errors |-> <<>>, warnings |-> <<>>]

IsError(e) == e.severity = "error"
IsWarning(e) == e.severity = "warning"

fail(errs) ==
  [valid |-> SelectSeq(errs, IsError) = <<>>,
   errors |-> SelectSeq(errs, IsError),
   warnings |-> SelectSeq(errs, IsWarning)]

Finish(errs) == IF Len(errs) > 0 THEN fail(errs) ELSE ok

\* a one-element list if the condition holds, else the empty list
When(cond, e) == IF cond THEN <<e>> ELSE <<>>

IsString(v) == v.type = "string"

\* the characters of a string value whose characters the model carries, and
\* String.length (a description is carried by its length only)
Chars(v) == v.str
StrLen(v) == IF "len" \in DOMAIN v THEN v.len ELSE Len(v.str)

IsChars(v) == v.type = "string" /\ "str" \in DOMAIN v

\* Array.prototype.includes(v) for a list of string literals: only a string
\* value can be included
InStrings(v, S) ==
  /\ v.type = "string"
  /\ IF "lit" \in DOMAIN v THEN v.lit \in S
     ELSE IF "str" \in DOMAIN v THEN v.str \in S
     ELSE FALSE

validateMetadata(d, prefix) ==
  LET name == Get(d, "name")
      desc == Get(d, "description")
  IN (IF ~Truthy(name) \/ ~IsString(name)
        THEN <<error(<<prefix, "name">>, "name is required and must be a string")>>
        ELSE When(StrLen(name) > MAX_NAME_LENGTH,
                  error(<<prefix, "name">>, "name must be <= 64 chars"))
             \o When(~NamePatternTest(Chars(name)),
                  error(<<prefix, "name">>,
                        "name must be lowercase alphanumeric with hyphens, starting with a letter")))
     \o
     (IF ~Truthy(desc) \/ ~IsString(desc)
        THEN <<error(<<prefix, "description">>, "description is required and must be a string")>>
        ELSE When(StrLen(desc) > MAX_DESCRIPTION_LENGTH,
                  warning(<<prefix, "description">>, "description exceeds 1024 chars")))

NotAnObject(data) == ~Truthy(data) \/ TypeOf(data) # "object"

validateManifest(data) ==
  IF NotAnObject(data)
    THEN fail(<<error(<<"manifest">>, "manifest must be an object")>>)
    ELSE Finish(
      When(~Truthy(Get(data, "name")) \/ ~IsString(Get(data, "name")),
           error(<<"manifest", "name">>, "name is required"))
      \o When(~Truthy(Get(data, "version")) \/ ~IsString(Get(data, "version")),
           error(<<"manifest", "version">>, "version is required"))
      \o When(~Truthy(Get(data, "description")) \/ ~IsString(Get(data, "description")),
           error(<<"manifest", "description">>, "description is required")))

validateSkill(data) ==
  IF NotAnObject(data)
    THEN fail(<<error(<<"skill">>, "skill must be an object")>>)
    ELSE LET inv == Get(data, "invocation")
             ctx == Get(data, "context")
         IN Finish(
      validateMetadata(data, "skill")
      \o (IF Truthy(inv) /\ TypeOf(inv) = "object"
            THEN When(Get(inv, "userInvocable").type \notin {"undefined", "boolean"},
                      error(<<"skill", "invocation", "userInvocable">>, "must be boolean"))
                 \o When(Get(inv, "modelInvocable").type \notin {"undefined", "boolean"},
                      error(<<"skill", "invocation", "modelInvocable">>, "must be boolean"))
            ELSE <<>>)
      \o (IF Truthy(ctx) /\ TypeOf(ctx) = "object"
            THEN When(Truthy(Get(ctx, "mode")) /\ ~InStrings(Get(ctx, "mode"), {"fork", "inline"}),
                      error(<<"skill", "context", "mode">>, "must be 'fork' or 'inline'"))
            ELSE <<>>))

\* the number of decimal digits of n >= 0
RECURSIVE DigitCount(_)
DigitCount(n) == IF n < 10 THEN 1 ELSE 1 + DigitCount(n \div 10)

\* x < 1 for a number x: NaN is below nothing, a fraction m * 10^e is below 1
\* when m has no more digits than e takes away
LessThanOne(v) ==
  IF "special" \in DOMAIN v THEN v.special = "Infinity" /\ v.num < 0
  ELSE IF "exp" \in DOMAIN v THEN v.num <= 0 \/ DigitCount(v.num) <= 0 - v.exp
  ELSE v.num < 1

validateAgent(data) ==
  IF NotAnObject(data)
    THEN fail(<<error(<<"agent">>, "agent must be an object")>>)
    ELSE LET pm == Get(data, "permissionMode")
             mem == Get(data, "memory")
             mt == Get(data, "maxTurns")
         IN Finish(
      validateMetadata(data, "agent")
      \o When(Truthy(pm) /\ ~InStrings(pm, VALID_PERMISSION_MODES),
              error(<<"agent", "permissionMode">>, "must be one of the permission modes"))
      \o When(Truthy(mem) /\ ~InStrings(mem, VALID_MEMORY_SCOPES),
              error(<<"agent", "memory">>, "must be one of the memory scopes"))
      \o When(mt.type # "undefined" /\ (mt.type # "number" \/ LessThanOne(mt)),
              error(<<"agent", "maxTurns">>, "must be a positive number")))

HasNullish(xs) == \E i \in DOMAIN xs : IsNullish(xs[i])

\* the findings for handler i (0-based in the path) of a hook
HandlerFindings(h, i) ==
  LET ty == Get(h, "type")
  IN When(~Truthy(ty) \/ ~InStrings(ty, VALID_HOOK_HANDLER_TYPES),
          error(<<"hook", "handlers", ToString(i), "type">>, "must be one of: command, prompt, agent"))
     \o When(ty = Lit("command") /\ ~Truthy(Get(h, "command")),
          error(<<"hook", "handlers", ToString(i), "command">>, "command is required for type 'command'"))
     \o When(ty \in {Lit("prompt"), Lit("agent")} /\ ~Truthy(Get(h, "prompt")),
          error(<<"hook", "handlers", ToString(i), "prompt">>, "prompt is required for this type"))

RECURSIVE HandlersFindings(_, _)
HandlersFindings(hs, i) ==
  IF i > Len(hs) THEN <<>>
  ELSE HandlerFindings(hs[i], i - 1) \o HandlersFindings(hs, i + 1)

validateHook(data) ==
  IF NotAnObject(data)
    THEN fail(<<error(<<"hook">>, "hook must be an object")>>)
    ELSE LET ev == Get(data, "event")
             hs == Get(data, "handlers")
             fb == Get(data, "fallback")
         IN Finish(
      validateMetadata(data, "hook")
      \o When(~Truthy(ev) \/ ~InStrings(ev, VALID_HOOK_EVENTS),
              error(<<"hook", "event">>, "event is required and must be one of the hook events"))
      \o (IF ~Truthy(hs) \/ ~IsArray(hs) \/ Len(hs.items) = 0
            THEN <<error(<<"hook", "handlers">>, "at least one handler is required")>>
            ELSE HandlersFindings(hs.items, 1))
      \o (IF Truthy(fb) /\ TypeOf(fb) = "object"
            THEN When(~Truthy(Get(fb, "strategy"))
                        \/ ~InStrings(Get(fb, "strategy"), VALID_FALLBACK_STRATEGIES),
                      error(<<"hook", "fallback", "strategy">>,
                            "must be one of: mcp-tool, skill-injection, ignore"))
            ELSE <<>>))

\* `h.type` on a handlers entry that is null or undefined raises a
\* TypeError out of validateHook
validateHookThrows(data) ==
  LET hs == Get(data, "handlers")
  IN ~NotAnObject(data) /\ Truthy(hs) /\ IsArray(hs) /\ HasNullish(hs.items)

validateTool(data) ==
  IF NotAnObject(data)
    THEN fail(<<error(<<"tool">>, "tool must be an object")>>)
    ELSE LET params == Get(data, "parameters")
             impl == Get(data, "implementation")
         IN Finish(
      validateMetadata(data, "tool")
      \o (IF ~Truthy(params) \/ TypeOf(params) # "object"
            THEN <<error(<<"tool", "parameters">>, "parameters schema is required")>>
            ELSE When(Get(params, "type") # Lit("object"),
                      error(<<"tool", "parameters", "type">>, "parameters type must be 'object'")))
      \o (IF ~Truthy(impl) \/ TypeOf(impl) # "object"
            THEN <<error(<<"tool", "implementation">>, "implementation is required")>>
            ELSE When(~Truthy(Get(impl, "type"))
                        \/ ~InStrings(Get(impl, "type"), VALID_TOOL_IMPL_TYPES),
                      error(<<"tool", "implementation", "type">>,
                            "must be one of: command, script, mcp-proxy"))
                 \o When(Get(impl, "type") = Lit("command") /\ ~Truthy(Get(impl, "command")),
                      error(<<"tool", "implementation", "command">>,
                            "command is required for type 'command'"))
                 \o When(Get(impl, "type") = Lit("script") /\ ~Truthy(Get(impl, "script")),
                      error(<<"tool", "implementation", "script">>,
                            "script is required for type 'script'"))
                 \o When(Get(impl, "type") = Lit("mcp-proxy") /\ ~Truthy(Get(impl, "mcpProxy")),
                      error(<<"tool", "implementation", "mcpProxy">>,
                            "mcpProxy is required for type 'mcp-proxy'"))))

validatePolicy(data) ==
  IF NotAnObject(data)
    THEN fail(<<error(<<"policy">>, "policy must be an object")>>)
    ELSE LET perms == Get(data, "permissions")
             bad(key) == Truthy(Get(perms, key)) /\ ~IsArray(Get(perms, key))
         IN Finish(
      validateMetadata(data, "policy")
      \o (IF Truthy(perms) /\ TypeOf(perms) = "object"
            THEN When(bad("allow"), error(<<"policy", "permissions", "allow">>,
                                          "must be an array of permission patterns"))
                 \o When(bad("deny"), error(<<"policy", "permissions", "deny">>,
                                          "must be an array of permission patterns"))
                 \o When(bad("ask"), error(<<"policy", "permissions", "ask">>,
                                          "must be an array of permission patterns"))
            ELSE <<>>))

-----------------------------------------------------------------------------
(* packages/core component parsers                                         *)

\* an object literal is built property by property
NoProps == [k \in {} |-> Undef]
Prop(k, v) == k :> v
PropIf(cond, k, v) == IF cond THEN k :> v ELSE NoProps

\* obj or undefined, as in `Object.keys(obj).length > 0 ? obj : undefined`
NonEmptyOrUndef(f) == IF DOMAIN f # {} THEN Obj(f) ELSE Undef

extractMetadata(fm) ==
  Obj([name |-> Get(fm, "name"),
       description |-> Get(fm, "description"),
       license |-> Get(fm, "license"),
       compatibility |-> Get(fm, "compatibility"),
       metadata |-> Get(fm, "metadata"),
       tags |-> Get(fm, "tags")])

NonEmpty(w) == w # <<>>
Wrap(w) == Str(w)
MapSeq(Op(_), xs) == [i \in DOMAIN xs |-> Op(xs[i])]

\* the characters of the model that \s matches
IsSpace(c) == c \in {" ", "\t", "\n"}

\* String.prototype.trim, on the characters of a string
RECURSIVE TrimStart(_)
TrimStart(s) == IF s # <<>> /\ IsSpace(Head(s)) THEN TrimStart(Tail(s)) ELSE s
RECURSIVE TrimEnd(_)
TrimEnd(s) ==
  IF s # <<>> /\ IsSpace(s[Len(s)]) THEN TrimEnd(SubSeq(s, 1, Len(s) - 1)) ELSE s

\* content.trim(); a text carried as a literal is written without white
\* space at its ends, and a whole file text starts with its --- line
trim(v) ==
  IF IsChars(v) THEN Str(TrimEnd(TrimStart(v.str)))
  ELSE IF "of" \in DOMAIN v /\ IsChars(v.of.body)
    THEN [v EXCEPT !.of.body = Str(TrimEnd(v.of.body.str))]
  ELSE v

\* the pieces of s between its white space characters, one by one
RECURSIVE SplitAtSpaces(_)
SplitAtSpaces(s) ==
  LET spaces == { i \in DOMAIN s : IsSpace(s[i]) }
  IN IF spaces = {} THEN <<s>>
     ELSE LET i == CHOOSE k \in spaces : \A m \in spaces : k <= m
          IN <<SubSeq(s, 1, i - 1)>> \o SplitAtSpaces(SubSeq(s, i + 1, Len(s)))

\* allowedTools.split(/\s+/).filter(Boolean): the pieces between runs of
\* white space, without the empty ones
SplitWords(s) == SelectSeq(SplitAtSpaces(s), NonEmpty)

extractToolAccess(fm) ==
  LET allowedTools == Or(Get(fm, "allowed-tools"), Get(fm, "allowedTools"))
      tools == Get(fm, "tools")
  IN IF Truthy(allowedTools) /\ IsChars(allowedTools)
       THEN Obj(Prop("allowed", Arr(MapSeq(Wrap, SplitWords(allowedTools.str)))))
       ELSE IF Truthy(tools) /\ TypeOf(tools) = "object"
         THEN Obj([allowed |-> Get(tools, "allowed"),
                   disallowed |-> Get(tools, "disallowed")])
         ELSE Undef

\* the HookHandler literal both hook parsers build from one entry h
HandlerOf(h) ==
  Obj([type |-> Get(h, "type"),
       command |-> Get(h, "command"),
       prompt |-> Get(h, "prompt"),
       model |-> Get(h, "model"),
       timeout |-> Get(h, "timeout"),
       statusMessage |-> Get(h, "statusMessage"),
       async |-> Get(h, "async"),
       once |-> Get(h, "once")])

\* `for (const h of list) ... h.type` raises a TypeError on a null entry

Dash == <<"-">>
AllWord == <<"a","l","l">>

\* String(n) for an index n
RECURSIVE IndexKey(_)
IndexKey(n) ==
  IF n < 10 THEN <<Digits[n + 1]>> ELSE IndexKey(n \div 10) \o <<Digits[(n % 10) + 1]>>

\* String(x) for a number that is not an integer: the digits with the point
\* in place, in exponent form below 1e-6
FracString(m, e) ==
  LET ds == IndexKey(IF m < 0 THEN 0 - m ELSE m)
      p == Len(ds) + e
      sign == IF m < 0 THEN <<"-">> ELSE <<>>
  IN sign \o
     (IF p > 0 THEN SubSeq(ds, 1, p) \o <<".">> \o SubSeq(ds, p + 1, Len(ds))
      ELSE IF p > -6 THEN <<"0", ".">> \o [k \in 1..(0 - p) |-> "0"] \o ds
      ELSE <<Head(ds)>> \o (IF Len(ds) > 1 THEN <<".">> \o Tail(ds) ELSE <<>>)
           \o <<"e", "-">> \o IndexKey(1 - p))

\* String(x) for a number
NumberString(v) ==
  IF "special" \in DOMAIN v
    THEN (IF v.num < 0 THEN <<"-">> ELSE <<>>)
         \o (IF v.special = "NaN" THEN <<"N","a","N">>
             ELSE <<"I","n","f","i","n","i","t","y">>)
  ELSE IF "exp" \in DOMAIN v THEN FracString(v.num, v.exp)
  ELSE IF v.num >= 0 THEN IndexKey(v.num)
  ELSE <<"-">> \o IndexKey(0 - v.num)

\* `${v}` in a template literal; a string carried as a literal stays one
\* piece, one carried by its length becomes that many characters
RECURSIVE Interpolate(_), JoinItems(_)
Interpolate(v) ==
  CASE v.type = "undefined" -> <<"u","n","d","e","f","i","n","e","d">>
    [] v.type = "null"      -> <<"n","u","l","l">>
    [] v.type = "string"    -> IF "str" \in DOMAIN v THEN v.str
                               ELSE IF "lit" \in DOMAIN v THEN <<v.lit>>
                               ELSE [k \in 1..v.len |-> "x"]
    [] v.type = "number"    -> NumberString(v)
    [] v.type = "boolean"   -> IF v.bool THEN <<"t","r","u","e">> ELSE <<"f","a","l","s","e">>
    [] v.type = "array"     -> JoinItems(v.items)
    [] OTHER                -> <<"[","o","b","j","e","c","t"," ","O","b","j","e","c","t","]">>
JoinItems(xs) ==
  IF xs = <<>> THEN <<>>
  ELSE (IF IsNullish(Head(xs)) THEN <<>> ELSE Interpolate(Head(xs)))
       \o (IF Len(xs) > 1 THEN <<",">> \o JoinItems(Tail(xs)) ELSE <<>>)

\* the handlers of one inline hook entry
InlineHandlers(hookEntry) ==
  LET hs == Get(hookEntry, "hooks")
  IN IF Truthy(hs) /\ IsArray(hs) THEN MapSeq(HandlerOf, hs.items) ELSE <<>>

\* the HookDefinition parseInlineHooks pushes for one entry under eventName
InlineHook(eventName, hookEntry) ==
  LET m == Get(hookEntry, "matcher")
      suffix == IF Truthy(m) THEN Interpolate(m) ELSE AllWord
  IN Obj([metadata |-> Obj([name |-> Str(toLowerCase(eventName \o Dash \o suffix)),
                            description |-> Text(16 + Len(eventName))]),
          event |-> Str(eventName),
          matcher |-> m,
          handlers |-> Arr(InlineHandlers(hookEntry))])

InlineEntryThrows(hookEntry) ==
  \/ IsNullish(hookEntry)
  \/ LET hs == Get(hookEntry, "hooks")
     IN Truthy(hs) /\ IsArray(hs) /\ HasNullish(hs.items)

\* a < b for the canonical decimal forms of two integers
RECURSIVE DigitsLess(_, _)
DigitsLess(a, b) ==
  IF Len(a) # Len(b) THEN Len(a) < Len(b)
  ELSE IF a = <<>> THEN FALSE
  ELSE IF Head(a) # Head(b) THEN CharCode(Head(a)) < CharCode(Head(b))
  ELSE DigitsLess(Tail(a), Tail(b))

\* a property key that is an array index: the canonical decimal form of an
\* integer from 0 to 2^32 - 2
IsIndexKey(k) ==
  /\ k # <<>>
  /\ \A i \in DOMAIN k : IsDigit(k[i])
  /\ Len(k) = 1 \/ k[1] # "0"
  /\ DigitsLess(k, <<"4","2","9","4","9","6","7","2","9","5">>)

\* entries with index keys, in ascending order of the index
RECURSIVE InIndexOrder(_)
InIndexOrder(es) ==
  IF es = {} THEN <<>>
  ELSE LET first == CHOOSE x \in es : \A y \in es \ {x} : DigitsLess(x.key, y.key)
       IN <<first>> \o InIndexOrder(es \ {first})

\* the own properties of an object in the order Object.entries lists them:
\* the index keys in ascending order, then the other keys in the order in
\* which they were added
OwnEntries(es) ==
  LET Named(x) == ~IsIndexKey(x.key)
  IN InIndexOrder({ es[i] : i \in { j \in DOMAIN es : IsIndexKey(es[j].key) } })
     \o SelectSeq(es, Named)

\* Object.entries(hooksData): the entries of a key-value document, one entry
\* per index for an array and for the characters of a string, none for a
\* number, a boolean or an object without keys
EntriesOf(hooksData) ==
  IF hooksData.type = "map" THEN OwnEntries(hooksData.entries)
  ELSE IF hooksData.type = "array"
    THEN [i \in DOMAIN hooksData.items |->
            [key |-> IndexKey(i - 1), value |-> hooksData.items[i]]]
  ELSE IF IsChars(hooksData)
    THEN [i \in DOMAIN hooksData.str |->
            [key |-> IndexKey(i - 1), value |-> Str(<<hooksData.str[i]>>)]]
  ELSE <<>>

parseInlineHooksThrows(hooksData) ==
  \E i \in DOMAIN EntriesOf(hooksData) :
    LET cfg == EntriesOf(hooksData)[i].value
    IN IsArray(cfg) /\ \E j \in DOMAIN cfg.items : InlineEntryThrows(cfg.items[j])

RECURSIVE InlineFrom(_, _)
InlineFrom(es, i) ==
  IF i > Len(es) THEN <<>>
  ELSE (IF IsArray(es[i].value)
          THEN [j \in DOMAIN es[i].value.items |-> InlineHook(es[i].key, es[i].value.items[j])]
          ELSE <<>>)
       \o InlineFrom(es, i + 1)

parseInlineHooks(hooksData) == Arr(InlineFrom(EntriesOf(hooksData), 1))

InlineHooksOf(fm) ==
  IF Truthy(Get(fm, "hooks")) THEN parseInlineHooks(Get(fm, "hooks")) ELSE Undef

parseSkillThrows(fm) ==
  Truthy(Get(fm, "hooks")) /\ parseInlineHooksThrows(Get(fm, "hooks"))

parseSkill(fm, body) ==
  LET ui == Get(fm, "user-invocable")
      dmi == Get(fm, "disable-model-invocation")
      hint == Or(Get(fm, "argument-hint"), Get(fm, "argumentHint"))
      invocation ==
        PropIf(ui # Undef \/ Get(fm, "userInvocable") # Undef,
               "userInvocable", Coalesce(ui, Get(fm, "userInvocable")))
        @@ PropIf(dmi # Undef \/ Get(fm, "modelInvocable") # Undef,
               "modelInvocable",
               IF dmi # Undef THEN Bool(~Truthy(dmi)) ELSE Get(fm, "modelInvocable"))
        @@ PropIf(Truthy(hint), "argumentHint", hint)
      c == Get(fm, "context")
      fromContext ==
        IF Truthy(c) /\ TypeOf(c) = "string" THEN Prop("mode", c)
        ELSE IF Truthy(c) /\ TypeOf(c) = "object"
          THEN [mode |-> Get(c, "mode"), agent |-> Get(c, "agent"), model |-> Get(c, "model")]
          ELSE NoProps
      context ==
        PropIf(Truthy(Get(fm, "model")), "model", Get(fm, "model"))
        @@ PropIf(Truthy(Get(fm, "agent")), "agent", Get(fm, "agent"))
        @@ fromContext
  IN Obj([metadata |-> extractMetadata(fm),
          invocation |-> NonEmptyOrUndef(invocation),
          tools |-> extractToolAccess(fm),
          context |-> NonEmptyOrUndef(context),
          resources |-> Get(fm, "resources"),
          instructions |-> body,
          hooks |-> InlineHooksOf(fm)])

parseAgentThrows(fm) ==
  Truthy(Get(fm, "hooks")) /\ parseInlineHooksThrows(Get(fm, "hooks"))

parseAgent(fm, body) ==
  LET servers == Get(fm, "mcpServers")
  IN Obj([metadata |-> extractMetadata(fm),
          model |-> Get(fm, "model"),
          maxTurns |-> Get(fm, "maxTurns"),
          tools |-> extractToolAccess(fm),
          permissionMode |-> Get(fm, "permissionMode"),
          skills |-> Get(fm, "skills"),
          mcpServers |-> IF Truthy(servers) /\ IsArray(servers) THEN servers ELSE Undef,
          memory |-> Get(fm, "memory"),
          instructions |-> body,
          hooks |-> InlineHooksOf(fm),
          toolGroups |-> Get(fm, "toolGroups"),
          whenToUse |-> Get(fm, "whenToUse")])

\* body || undefined
BodyOrUndef(body) == IF Truthy(body) THEN body ELSE Undef

parseHookThrows(fm) ==
  LET hs == Get(fm, "handlers")
  IN Truthy(hs) /\ IsArray(hs) /\ HasNullish(hs.items)

parseHook(fm, body) ==
  LET hs == Get(fm, "handlers")
      fb == Get(fm, "fallback")
  IN Obj([metadata |-> extractMetadata(fm),
          event |-> Get(fm, "event"),
          matcher |-> Get(fm, "matcher"),
          handlers |-> Arr(IF Truthy(hs) /\ IsArray(hs) THEN MapSeq(HandlerOf, hs.items) ELSE <<>>),
          fallback |-> IF Truthy(fb) /\ TypeOf(fb) = "object"
                         THEN Obj([strategy |-> Get(fb, "strategy"),
                                   description |-> Get(fb, "description")])
                         ELSE Undef,
          instructions |-> BodyOrUndef(body)])

DefaultParameters == Obj([type |-> Lit("object"), properties |-> Obj(NoProps)])

parseTool(fm, body) ==
  LET impl == Get(fm, "implementation")
      exp == Get(fm, "exposure")
  IN Obj([metadata |-> extractMetadata(fm),
          parameters |-> Or(Get(fm, "parameters"), DefaultParameters),
          implementation |-> IF Truthy(impl)
                               THEN Obj([type |-> Get(impl, "type"),
                                         command |-> Get(impl, "command"),
                                         script |-> Get(impl, "script"),
                                         mcpProxy |-> Get(impl, "mcpProxy")])
                               ELSE Obj(Prop("type", Lit("command"))),
          exposure |-> IF Truthy(exp) /\ TypeOf(exp) = "object"
                         THEN Obj([mcp |-> Get(exp, "mcp"), native |-> Get(exp, "native")])
                         ELSE Undef,
          instructions |-> BodyOrUndef(body)])

parsePolicy(fm, body) ==
  LET p == Get(fm, "permissions")
      sb == Get(fm, "sandbox")
  IN Obj([metadata |-> extractMetadata(fm),
          permissions |-> IF Truthy(p) /\ TypeOf(p) = "object"
                            THEN Obj([deny |-> Get(p, "deny"),
                                      ask |-> Get(p, "ask"),
                                      allow |-> Get(p, "allow")])
                            ELSE Undef,
          sandbox |-> IF Truthy(sb) /\ TypeOf(sb) = "object"
                        THEN Obj([enabled |-> Get(sb, "enabled"),
                                  excludedCommands |-> Get(sb, "excludedCommands"),
                                  network |-> Get(sb, "network")])
                        ELSE Undef,
          instructions |-> BodyOrUndef(body)])

-----------------------------------------------------------------------------
(* The extension directory on disk                                         *)

Kinds == <<"skill", "agent", "hook", "tool", "policy">>

\* the manifest field that names the directory of a kind
KindField(kind) ==
  CASE kind = "skill"  -> "skills"
    [] kind = "agent"  -> "agents"
    [] kind = "hook"   -> "hooks"
    [] kind = "tool"   -> "tools"
    [] kind = "policy" -> "policies"

\* the directory the example manifest names for a kind
DirChars(kind) ==
  CASE kind = "skill"  -> <<"s","k","i","l","l","s">>
    [] kind = "agent"  -> <<"a","g","e","n","t","s">>
    [] kind = "hook"   -> <<"h","o","o","k","s">>
    [] kind = "tool"   -> <<"t","o","o","l","s">>
    [] kind = "policy" -> <<"p","o","l","i","c","i","e","s">>

DotMd == <<".","m","d">>

\* the file name resolveExtension passes to discoverComponents for a kind
FileName(kind) ==
  CASE kind = "skill"  -> <<"S","K","I","L","L">> \o DotMd
    [] kind = "agent"  -> <<"A","G","E","N","T">> \o DotMd
    [] kind = "hook"   -> <<"H","O","O","K">> \o DotMd
    [] kind = "tool"   -> <<"T","O","O","L">> \o DotMd
    [] kind = "policy" -> <<"P","O","L","I","C","Y">> \o DotMd

RulesDirName == <<"r","u","l","e","s">>
ManifestName == <<"e","x","t","e","n","s","i","o","n",".","y","a","m","l">>
StyleMd == <<"s","t","y","l","e">> \o DotMd
SubName == <<"s","u","b">>
DeepMd  == <<"d","e","e","p">> \o DotMd

toUpperCase(s) == [i \in DOMAIN s |-> UpperChar(s[i])]

NmLint   == <<"l","i","n","t">>
NmFmt    == <<"f","m","t">>
NmReview == <<"r","e","v","i","e","w">>
NmUpper  == <<"B","a","d">>

ShortText == Text(20)
LongText  == Text(MAX_DESCRIPTION_LENGTH + 1)

CommandEntry == Obj([type |-> Lit("command"), command |-> Lit("sh-script"), timeout |-> Num(30)])
PromptEntry  == Obj(Prop("type", Lit("prompt")))

Meta(name, desc) == [name |-> Str(name), description |-> desc]

\* hooks declared inline in a skill's metadata block, keyed by event name
InlineUnderEvent(ev, entry) == Map(<<[key |-> ev, value |-> Arr(<<entry>>)]>>)
EntryAll      == Obj(Prop("hooks", Arr(<<CommandEntry>>)))
EntryMatcher  == Obj([matcher |-> Str(MEditOrWrite), hooks |-> Arr(<<CommandEntry>>)])
EntryNoHooks  == Obj(NoProps)
EntryNumber   == Obj([matcher |-> Num(5), hooks |-> Arr(<<CommandEntry>>)])

\* a component file.  Its path is root/parent.../dir/file.  Its text is
\* described by: yaml, whether the metadata block apart from its description
\* line is well-formed YAML; quoting, the form of the description line;
\* fm, the key-value data the block holds when it can be read; body.
\* The forms of the description line:
\*   "plain"         a value that needs no quotes
\*   "quoted"        a value in quotes
\*   "needs-quotes"  an unquoted value that needs quotes and that YAML reads
\*                   as the same text without them
\*   "breaks-yaml"   an unquoted value such as `Lint: all`, with which the
\*                   block is not YAML
\*   "empty"         no value, the next line being a key-value line
\*   "next-quoted"   no value, the next line being `"key: value"` in quotes,
\*                   with which the block is not YAML
File(kind, dir, yaml, quoting, fm, body) ==
  [kind |-> kind, root |-> DirChars(kind), parent |-> <<>>, dir |-> dir,
   file |-> FileName(kind),
   yaml |-> yaml, quoting |-> quoting, fm |-> Obj(fm), body |-> Lit(body)]

\* the file with the characters of its body given one by one
WithBody(f, chars) == [f EXCEPT !.body = Str(chars)]

\* the file moved below the directories parent of its root
Below(parent, f) == [f EXCEPT !.parent = parent]

\* the file under its lower-case name (skill.md for SKILL.md)
LowerCaseName(f) == [f EXCEPT !.file = toLowerCase(@)]

\* a body holding a line that reads like an unquoted description line
BodyWithDescriptionLine == "description: see: below"

FileSamples ==
  { \* skills
    File("skill", NmLint, "ok", "plain", Meta(NmLint, ShortText), "Run the linter."),
    File("skill", NmFmt, "ok", "needs-quotes", Meta(NmFmt, ShortText), "Format."),
    File("skill", NmReview, "ok", "plain", Meta(NmReview, LongText), "Review."),
    File("skill", NmReview, "ok", "plain", Meta(NmFmt, ShortText), "Other directory."),
    File("skill", NmUpper, "ok", "plain", Meta(NmUpper, ShortText), "Bad name."),
    File("skill", NmReview, "bad", "plain", Meta(NmReview, ShortText), "Unparsable."),
    File("skill", NmFmt, "bad", "plain", Meta(NmFmt, ShortText), "Unparsable."),
    \* the same text as the unparsable file of directory review
    File("skill", NmLint, "bad", "plain", Meta(NmReview, ShortText), "Unparsable."),
    File("skill", NmFmt, "ok", "plain",
         Meta(NmFmt, ShortText) @@ Prop("hooks", InlineUnderEvent(EvPreToolUse, EntryAll)), "Inline."),
    File("skill", NmFmt, "ok", "plain",
         Meta(NmFmt, ShortText)
           @@ Prop("hooks", Map(<<[key |-> EvPreToolUse, value |-> Arr(<<EntryMatcher>>)],
                                  [key |-> <<"0">>, value |-> Arr(<<EntryAll, EntryNumber>>)]>>)), "Inline."),
    File("skill", NmFmt, "ok", "plain",
         Meta(NmFmt, ShortText) @@ Prop("hooks", InlineUnderEvent(EvPreToolUse, Null)), "Inline."),
    File("skill", NmLint, "ok", "plain",
         Meta(NmLint, ShortText) @@ Prop("hooks", Arr(<<Arr(<<EntryMatcher>>)>>)), "Inline list."),
    File("skill", NmLint, "ok", "breaks-yaml", Meta(NmLint, ShortText), "Colon."),
    File("skill", NmFmt, "ok", "empty", [name |-> Str(NmFmt), description |-> Null], "Empty."),
    File("skill", NmReview, "ok", "plain", Meta(NmReview, ShortText), BodyWithDescriptionLine),
    WithBody(LowerCaseName(File("skill", NmFmt, "ok", "plain", Meta(NmFmt, ShortText), "")),
             <<" ","\n","L","o","w","e","r"," ","c","a","s","e","."," ","\n">>),
    File("skill", NmReview, "ok", "plain",
         Meta(NmReview, ShortText) @@ Prop("tools", Obj(Prop("allowed", Str(<<"R","e","a","d">>)))),
         "Tools."),
    Below(<<NmFmt>>, File("skill", NmLint, "ok", "plain", Meta(NmLint, ShortText), "Nested.")),
    \* agents
    File("agent", NmReview, "ok", "plain",
         Meta(NmReview, ShortText) @@ Prop("permissionMode", Lit("plan")), "You review."),
    File("agent", NmLint, "ok", "plain",
         Meta(NmLint, ShortText) @@ Prop("permissionMode", Lit("yolo")), "Bad mode."),
    File("agent", NmFmt, "ok", "plain",
         Meta(NmFmt, ShortText) @@ Prop("hooks", InlineUnderEvent(NmUpper, EntryNoHooks)), "Inline."),
    \* hooks
    File("hook", NmLint, "ok", "plain",
         Meta(NmLint, ShortText) @@ [event |-> Str(EvPreToolUse), matcher |-> Str(MEditOrWrite),
                                     handlers |-> Arr(<<CommandEntry>>),
                                     fallback |-> Obj(Prop("strategy", Lit("mcp-tool")))], ""),
    File("hook", NmFmt, "ok", "plain",
         Meta(NmFmt, ShortText) @@ [event |-> Str(EvSessionStart), handlers |-> Arr(<<>>)], ""),
    File("hook", NmReview, "ok", "plain",
         Meta(NmReview, ShortText) @@ [event |-> Str(EvPreToolUse), handlers |-> Arr(<<Null>>)], ""),
    \* tools
    File("tool", NmLint, "ok", "plain",
         Meta(NmLint, ShortText) @@ Prop("implementation",
              Obj([type |-> Lit("command"), command |-> Lit("eslint {{files}}")])), ""),
    File("tool", NmFmt, "ok", "plain", Meta(NmFmt, ShortText), "No implementation."),
    \* policies
    File("policy", NmLint, "ok", "plain",
         Meta(NmLint, ShortText) @@ Prop("permissions",
              Obj(Prop("deny", Arr(<<Lit("Read(.env)")>>)))), "Keep secrets."),
    File("policy", NmFmt, "ok", "plain",
         Meta(NmFmt, ShortText) @@ Prop("permissions", Obj(Prop("allow", Str(<<"B","a","s","h">>)))), "") }

\* Array.prototype.join("/")
RECURSIVE JoinPath(_)
JoinPath(segs) ==
  IF segs = <<>> THEN <<>>
  ELSE IF Len(segs) = 1 THEN segs[1]
  ELSE segs[1] \o <<"/">> \o JoinPath(Tail(segs))

\* the path of a component file below the extension directory, as segments
Segments(f) == <<f.root>> \o f.parent \o <<f.dir, f.file>>

\* the path of a component file below the extension directory
PathKey(f) == JoinPath(Segments(f))

\* the path resolveExtension reports a finding under
FileId(f) == PathKey(f)

MaxFiles == 2

\* the subsets of S with at most n elements
RECURSIVE SetsUpTo(_, _)
SetsUpTo(S, n) ==
  IF n = 0 THEN { {} }
  ELSE LET smaller == SetsUpTo(S, n - 1)
       IN smaller \cup { fs \cup {f} : fs \in smaller, f \in S }

\* a path holds one file
FileSets ==
  { fs \in SetsUpTo(FileSamples, MaxFiles) : \A f, g \in fs : FileId(f) = FileId(g) => f = g }

ManifestFields ==
  [name |-> Str(NmLint), version |-> Lit("1.0.0"), description |-> ShortText,
   skills |-> Str(DirChars("skill")), agents |-> Str(DirChars("agent")),
   hooks |-> Str(DirChars("hook")), tools |-> Str(DirChars("tool")),
   policies |-> Str(DirChars("policy")), rules |-> Str(RulesDirName)]

\* "./" before and "/" after a directory name, as the example manifest writes it
DotSlash(name) == <<".", "/">> \o name \o <<"/">>

ManifestFile(exists, yaml, doc) == [exists |-> exists, yaml |-> yaml, doc |-> doc]

NoManifestFile == ManifestFile(FALSE, "ok", Null)

YmlName == <<"e","x","t","e","n","s","i","o","n",".","y","m","l">>

ManifestSamples ==
  { ManifestFile(TRUE, "ok", Obj(ManifestFields)),
    ManifestFile(TRUE, "ok", Obj([ManifestFields EXCEPT !.version = Undef])),
    ManifestFile(TRUE, "ok", Obj([ManifestFields EXCEPT !.hooks = Num(1)])),
    ManifestFile(TRUE, "ok", Obj([ManifestFields EXCEPT !.rules = Bool(TRUE)])),
    ManifestFile(TRUE, "ok", Obj([ManifestFields EXCEPT
                                    !.skills = Str(DotSlash(DirChars("skill"))),
                                    !.rules = Str(DotSlash(RulesDirName))])),
    ManifestFile(TRUE, "ok", Obj([ManifestFields EXCEPT !.rules = Str(DirChars("skill"))])),
    ManifestFile(TRUE, "ok", Obj([ManifestFields EXCEPT !.skills = Str(ManifestName)])),
    ManifestFile(TRUE, "ok", Null),
    ManifestFile(TRUE, "ok", Lit("just text")),
    ManifestFile(TRUE, "bad", Null),
    NoManifestFile }

\* a plain document below the rules directory: its path below that
\* directory and its text
RuleFile(path, text) == [path |-> path, content |-> [text |-> text]]

\* what discoverRules returns for the one document of the example
RuleDoc == [name |-> StyleMd, content |-> [text |-> "Use two spaces."]]

\* the state of the path rules/: what is there ("missing", "dir" or "file")
\* and the documents below it
RulesTree(type, docs) == [type |-> type, docs |-> docs]

MissingRules == RulesTree("missing", {})
StyleRules   == RulesTree("dir", { RuleFile(<<StyleMd>>, "Use two spaces.") })
NestedRules  == RulesTree("dir", { RuleFile(<<StyleMd>>, "Use two spaces."),
                                   RuleFile(<<SubName, DeepMd>>, "Nested.") })
RulesAsFile  == RulesTree("file", {})

\* a document whose name is the name KiloCode gives the file of policy lint
PolicyLintMd == <<"p","o","l","i","c","y","-","l","i","n","t",".","m","d">>
PolicyNamedRules == RulesTree("dir", { RuleFile(<<PolicyLintMd>>, "Named like a policy file.") })

RulesTrees == { MissingRules, StyleRules, NestedRules, RulesAsFile, PolicyNamedRules }

RuleFiles(rt) == rt.docs

\* the order in which readdirSync lists the names of a directory
ScanOrders == { "ascending", "descending" }

\* a < b in the order Array.prototype.sort() uses for strings
RECURSIVE StrLess(_, _)
StrLess(a, b) ==
  IF b = <<>> THEN FALSE
  ELSE IF a = <<>> THEN TRUE
  ELSE IF Head(a) # Head(b) THEN CharCode(Head(a)) < CharCode(Head(b))
  ELSE StrLess(Tail(a), Tail(b))

\* the files in the order readdirSync-based scanning pushed them, unsorted
RECURSIVE ScanOrder(_)
ScanOrder(fs) ==
  IF fs = {} THEN <<>>
  ELSE LET first == CHOOSE f \in fs : \A g \in fs \ {f} : StrLess(PathKey(g), PathKey(f))
       IN <<first>> \o ScanOrder(fs \ {first})
RECURSIVE SortFiles(_)
SortFiles(fs) ==
  IF fs = {} THEN <<>>
  ELSE LET first == CHOOSE f \in fs : \A g \in fs \ {f} : StrLess(PathKey(f), PathKey(g))
       IN <<first>> \o SortFiles(fs \ {first})

-----------------------------------------------------------------------------
(* packages/core loader                                                    *)

\* whether the value the description pattern captured has to be quoted, and
\* the line with the quotes added.  For the form "empty" the pattern's \s*
\* runs over the line break and captures the next line, a key-value line.
needsYamlQuotes(q) == q \in {"needs-quotes", "breaks-yaml", "empty"}
ensureYamlQuotes(q) == IF q = "empty" THEN "next-quoted" ELSE "quoted"

\* fixYamlDescriptionsInFrontmatter, on the form of the description line
fixYamlDescriptionsInFrontmatter(q) ==
  IF q \in {"quoted", "next-quoted"} THEN q
  ELSE IF needsYamlQuotes(q) THEN ensureYamlQuotes(q)
  ELSE q

\* fixYamlDescriptionsInFrontmatter, on the body: the pattern is applied to
\* the whole text of the file
FixBody(b) ==
  IF b = Lit(BodyWithDescriptionLine) THEN Lit("description: \"see: below\"") ELSE b

\* the text parseMarkdownFile hands to matter()
Fixed(f) ==
  [f EXCEPT !.quoting = fixYamlDescriptionsInFrontmatter(@), !.body = FixBody(@)]

\* parseMarkdownFile rewrites the file when the fix is enabled and changes it
ParseRewrites(f, fix) == fix /\ Fixed(f) # f

\* the file parseMarkdownFile leaves on disk, which is the text it parses
AfterParse(f, fix) == IF ParseRewrites(f, fix) THEN Fixed(f) ELSE f

\* the text of a component file
TextOf(f) == [yaml |-> f.yaml, quoting |-> f.quoting, fm |-> f.fm, body |-> f.body]

\* the metadata block of the text is not YAML
NotYaml(f) == f.yaml = "bad" \/ f.quoting \in {"breaks-yaml", "next-quoted"}

\* matter(contentToParse) is called without options, and gray-matter then
\* keeps the file object it builds for a text in a cache keyed by the text,
\* storing it before it reads the metadata block.  On a block that is not
\* YAML the call raises; a later call with the same text finds the stored
\* object and returns a copy of it instead of raising.
matterThrows(f, cache) == NotYaml(f) /\ TextOf(f) \notin cache

\* the whole text of the file, metadata block included, as one string
WholeText(f) == [type |-> "string", lit |-> "---", of |-> TextOf(f)]

\* what matter(contentToParse) returns when it returns.  The object stored
\* for a text whose block is not YAML is as toFile built it: data is {} and
\* content is the whole text.
matter(f) ==
  IF NotYaml(f) THEN [data |-> Obj(NoProps), content |-> WholeText(f)]
  ELSE [data |-> f.fm, content |-> f.body]

\* the file loadManifest reads: extension.yaml if it exists, else extension.yml
ManifestRead(d) == IF d.manifest.exists THEN d.manifest ELSE d.yml

\* loadManifest: "" if it returns, else the error it throws
loadManifestError(d) ==
  IF ~d.manifest.exists /\ ~d.yml.exists THEN "No extension.yaml found"
  ELSE IF ManifestRead(d).yaml = "bad" THEN "YAML parse error"
  ELSE IF ~Truthy(ManifestRead(d).doc) \/ TypeOf(ManifestRead(d).doc) # "object"
    THEN "Invalid extension manifest"
  ELSE ""

\* path.resolve(baseDir, componentDir) raises a TypeError on a path segment
\* that is not a string
resolveThrows(componentDir) == ~IsString(componentDir)

\* path.resolve(baseDir, componentDir) as the segments below baseDir, for a
\* relative path without ".."
ResolveBelow(componentDir) ==
  LET Named(seg) == seg # <<>> /\ seg # <<".">>
  IN SelectSeq(Split(componentDir.str, "/"), Named)

IsPrefix(p, q) == Len(p) <= Len(q) /\ SubSeq(q, 1, Len(p)) = p

\* the *.md files of the extension directory: path below it and content
MdNodes(d) ==
  { [path |-> Segments(f), content |-> f] : f \in d.files }
  \cup { [path |-> <<RulesDirName>> \o r.path, content |-> r.content] :
           r \in RuleFiles(d.rulesTree) }

\* what the path p below the extension directory is
PathType(d, p) ==
  IF p = <<>> THEN "dir"
  ELSE IF p = <<ManifestName>> THEN (IF d.manifest.exists THEN "file" ELSE "missing")
  ELSE IF p = <<YmlName>> THEN (IF d.yml.exists THEN "file" ELSE "missing")
  ELSE IF p = <<RulesDirName>> /\ d.rulesTree.type # "missing" THEN d.rulesTree.type
  ELSE IF \E n \in MdNodes(d) : n.path = p THEN "file"
  ELSE IF \E n \in MdNodes(d) : IsPrefix(p, n.path) THEN "dir"
  ELSE "missing"

\* existsSync(dir) holds and readdirSync(dir) raises: the path is not a directory
ReaddirThrows(d, dir) == PathType(d, ResolveBelow(dir)) = "file"

\* discoverComponents(baseDir, componentDir, filename): "" if it returns,
\* else the error it throws
discoverComponentsError(d, componentDir) ==
  IF ~Truthy(componentDir) THEN ""
  ELSE IF resolveThrows(componentDir) THEN "TypeError: path must be a string"
  ELSE IF ReaddirThrows(d, componentDir) THEN "readdirSync failed"
  ELSE ""

discoverComponentsThrows(d, componentDir) == discoverComponentsError(d, componentDir) # ""

\* the files scanDirectory pushes, sorted: those below the directory whose
\* name is the file name of the kind, whatever the case of its letters
discoverComponents(d, componentDir, kind) ==
  IF ~Truthy(componentDir) \/ discoverComponentsThrows(d, componentDir) THEN <<>>
  ELSE SortFiles({ f \in d.files :
                     /\ IsPrefix(ResolveBelow(componentDir), Segments(f))
                     /\ toUpperCase(f.file) = toUpperCase(FileName(kind)) })

\* discoverRules(baseDir, rulesDir): "" if it returns, else the error
discoverRulesError(d, rulesDir) ==
  IF ~Truthy(rulesDir) THEN ""
  ELSE IF resolveThrows(rulesDir) THEN "TypeError: path must be a string"
  ELSE IF ReaddirThrows(d, rulesDir) THEN "readdirSync failed"
  ELSE ""

\* a comes before b when a depth-first scan lists the names of every
\* directory in ascending order
RECURSIVE SegLess(_, _)
SegLess(a, b) ==
  IF b = <<>> THEN FALSE
  ELSE IF a = <<>> THEN TRUE
  ELSE IF Head(a) # Head(b) THEN StrLess(Head(a), Head(b))
  ELSE SegLess(Tail(a), Tail(b))

ScansBefore(a, b, scan) == IF scan = "ascending" THEN SegLess(a, b) ELSE SegLess(b, a)

\* scanRules: the entries of the rules map in insertion order, the key of a
\* document being its path below the rules directory
RECURSIVE ScanRules(_, _, _)
ScanRules(nodes, base, scan) ==
  IF nodes = {} THEN <<>>
  ELSE LET first == CHOOSE n \in nodes :
                      \A m \in nodes \ {n} : ScansBefore(n.path, m.path, scan)
       IN <<[name |-> JoinPath(SubSeq(first.path, Len(base) + 1, Len(first.path))),
             content |-> first.content]>>
          \o ScanRules(nodes \ {first}, base, scan)

discoverRules(d, rulesDir) ==
  IF ~Truthy(rulesDir) \/ discoverRulesError(d, rulesDir) # "" THEN <<>>
  ELSE ScanRules({ n \in MdNodes(d) : IsPrefix(ResolveBelow(rulesDir), n.path) },
                 ResolveBelow(rulesDir), d.scan)

-----------------------------------------------------------------------------
(* packages/core resolveExtension                                          *)

ResolveError(component, file, message, severity) ==
  [component |-> component, file |-> file, message |-> message, severity |-> severity]

Message(path, text) == [path |-> path, text |-> text]

\* collectErrors: the entries appended for one validation result
collectErrors(component, file, validation) ==
  [i \in DOMAIN validation.errors |->
     ResolveError(component, file,
                  Message(validation.errors[i].path, validation.errors[i].message), "error")]
  \o
  [i \in DOMAIN validation.warnings |->
     ResolveError(component, file,
                  Message(validation.warnings[i].path, validation.warnings[i].message), "warning")]

Label(kind, comp) == [kind |-> kind, name |-> Get(Get(comp, "metadata"), "name")]

ParserThrows(kind, fm) ==
  CASE kind = "skill" -> parseSkillThrows(fm)
    [] kind = "agent" -> parseAgentThrows(fm)
    [] kind = "hook"  -> parseHookThrows(fm)
    [] OTHER          -> FALSE

Parse(kind, fm, body) ==
  CASE kind = "skill"  -> parseSkill(fm, body)
    [] kind = "agent"  -> parseAgent(fm, body)
    [] kind = "hook"   -> parseHook(fm, body)
    [] kind = "tool"   -> parseTool(fm, body)
    [] kind = "policy" -> parsePolicy(fm, body)

Pick(comp, keys) == [k \in keys |-> Get(comp, k)]

\* the object resolveExtension passes to the validator of the kind
ValidatorInput(kind, comp) ==
  LET md == Get(comp, "metadata").fields
  IN Obj(Spread(md,
       CASE kind = "skill"  -> Pick(comp, {"invocation", "context", "tools"})
         [] kind = "agent"  -> Pick(comp, {"permissionMode", "memory", "maxTurns"})
         [] kind = "hook"   -> Pick(comp, {"event", "handlers", "fallback"})
         [] kind = "tool"   -> Pick(comp, {"parameters", "implementation"})
         [] kind = "policy" -> Pick(comp, {"permissions"})))

Validate(kind, data) ==
  CASE kind = "skill"  -> validateSkill(data)
    [] kind = "agent"  -> validateAgent(data)
    [] kind = "hook"   -> validateHook(data)
    [] kind = "tool"   -> validateTool(data)
    [] kind = "policy" -> validatePolicy(data)

\* the warning for a skill whose name is not its directory's name
NameMismatchAsError(f, comp) ==
  When(f.kind = "skill" /\ Str(f.dir) # Get(Get(comp, "metadata"), "name"),
       ResolveError([kind |-> "skill"], FileId(f),
                    Message(<<>>, "Skill name does not match directory name"), "error"))
NameMismatch(f, comp) ==
  When(f.kind = "skill" /\ Str(f.dir) # Get(Get(comp, "metadata"), "name"),
       ResolveError([kind |-> "skill"], FileId(f),
                    Message(<<>>, "Skill name does not match directory name"), "warning"))

\* the body of the try block for one file raises, cache being the texts
\* matter() was given before
FileThrows(f, cache) == matterThrows(f, cache) \/ ParserThrows(f.kind, matter(f).data)

\* the body parseMarkdownFile returns: content.trim()
ParsedBody(f) == trim(matter(f).content)

\* the parser of the kind on what parseMarkdownFile returns for the file
ParseFile(f) == Parse(f.kind, matter(f).data, ParsedBody(f))

\* the entries one file adds to the error list
FileFindingsSilent(f, cache) ==
  IF FileThrows(f, cache)
    THEN <<>>
    ELSE LET comp == ParseFile(f)
         IN NameMismatch(f, comp)
            \o collectErrors(Label(f.kind, comp), FileId(f),
                             Validate(f.kind, ValidatorInput(f.kind, comp)))
FileFindings(f, cache) ==
  IF FileThrows(f, cache)
    THEN <<ResolveError([kind |-> f.kind], FileId(f), Message(<<>>, "Failed to parse"), "error")>>
    ELSE LET comp == ParseFile(f)
         IN NameMismatch(f, comp)
            \o collectErrors(Label(f.kind, comp), FileId(f),
                             Validate(f.kind, ValidatorInput(f.kind, comp)))

\* the components one file adds to the list of its kind
FileComponents(f, cache) ==
  IF FileThrows(f, cache) THEN <<>> ELSE <<ParseFile(f)>>

HasErrors(es) == \E i \in DOMAIN es : es[i].severity = "error"

NoIR == [built |-> FALSE]

NoLists == [k \in Range(Kinds) |-> <<>>]

-----------------------------------------------------------------------------
(* packages/compiler: target registry, KiloCode file map, compile          *)

SupportedTargets == { "claude", "kilocode", "opencode" }

NameOf(comp) == Get(Get(comp, "metadata"), "name")

\* the key of a file map entry: `${before}${v}${after}`
OutPath(before, v, after) == before \o Interpolate(v) \o after

SkillMd == <<"/","S","K","I","L","L",".","m","d">>

ExposedOnlyIfSet(tool) == Get(Get(tool, "exposure"), "mcp") = Bool(TRUE)
ExposedViaMcp(tool) ==
  LET exp == Get(tool, "exposure")
  IN IsNullish(exp) \/ Get(exp, "mcp") # Bool(FALSE)

HasInstructions(comp) == Truthy(Get(comp, "instructions"))

\* Map.prototype.set over a list of entries: a key set again keeps its
\* position and takes the later value
RECURSIVE MapSetAll(_)
MapSetAll(es) ==
  IF es = <<>> THEN <<>>
  ELSE LET init == MapSetAll(SubSeq(es, 1, Len(es) - 1))
           last == es[Len(es)]
       IN IF \E k \in DOMAIN init : init[k].path = last.path
            THEN [k \in DOMAIN init |-> IF init[k].path = last.path THEN last ELSE init[k]]
            ELSE Append(init, last)

FileEntry(path, content) == [path |-> path, content |-> content]

BuildWarning(component, message, severity) ==
  [component |-> component, message |-> message, severity |-> severity]

\* a RuntimeRequirement; count is the number its reason text states
RuntimeRequirement(feature, count, component) ==
  [feature |-> feature, count |-> count, component |-> component]

\* what a compile call that returns hands back
TargetOutput(files, warnings, reqs) ==
  [files |-> files, warnings |-> warnings, runtimeRequirements |-> reqs, threw |-> FALSE]

\* a compile call that raised a TypeError returns nothing
ThrownOutput ==
  [files |-> <<>>, warnings |-> <<>>, runtimeRequirements |-> <<>>, threw |-> TRUE]

\* the three accumulators a compile call starts from
KeptOutput(previous) == previous
FreshOutput(previous) == TargetOutput(<<>>, <<>>, <<>>)

\* list.join(sep) raises on a value that is set and has no join method
JoinThrows(list) == Truthy(list) /\ ~IsArray(list)

\* for...of, spread and new Set() accept an array or a string
Iterable(v) == IsArray(v) \/ IsString(v)

\* what iterating v yields: the items of an array, the characters of a
\* string (as many unknown characters for a string carried otherwise)
Iterate(v) ==
  IF IsArray(v) THEN v.items
  ELSE IF IsChars(v) THEN [k \in DOMAIN v.str |-> Str(<<v.str[k]>>)]
  ELSE IF IsString(v) /\ "len" \in DOMAIN v THEN [k \in 1..v.len |-> Text(1)]
  ELSE IF IsString(v) THEN [k \in 1..Len(v.lit) |-> Text(1)]
  ELSE <<>>

\* v?.length is truthy
HasLength(v) ==
  CASE v.type = "array"  -> v.items # <<>>
    [] v.type = "string" -> Truthy(v)
    [] v.type = "object" -> Truthy(Get(v, "length"))
    [] v.type = "map"    -> \E k \in DOMAIN v.entries :
                              v.entries[k].key = <<"l","e","n","g","t","h">> /\ Truthy(v.entries[k].value)
    [] OTHER             -> FALSE

\* the keys every plain object inherits
InheritedKeys ==
  { <<"c","o","n","s","t","r","u","c","t","o","r">>,
    <<"t","o","S","t","r","i","n","g">>,
    <<"v","a","l","u","e","O","f">>,
    <<"h","a","s","O","w","n","P","r","o","p","e","r","t","y">>,
    <<"_","_","p","r","o","t","o","_","_">>,
    <<"i","s","P","r","o","t","o","t","y","p","e","O","f">>,
    <<"p","r","o","p","e","r","t","y","I","s","E","n","u","m","e","r","a","b","l","e">>,
    <<"t","o","L","o","c","a","l","e","S","t","r","i","n","g">>,
    <<"_","_","d","e","f","i","n","e","G","e","t","t","e","r","_","_">>,
    <<"_","_","d","e","f","i","n","e","S","e","t","t","e","r","_","_">>,
    <<"_","_","l","o","o","k","u","p","G","e","t","t","e","r","_","_">>,
    <<"_","_","l","o","o","k","u","p","S","e","t","t","e","r","_","_">> }

\* `result[hook.event].push(entry)` on an object literal raises when the
\* event is an inherited key: the value found there is not an array
InheritedEvent(hook) == Interpolate(Get(hook, "event")) \in InheritedKeys

\* emitTools / buildConfig: the tool-server requirement
ToolServerRequirement(tools) ==
  When(SelectSeq(tools, ExposedViaMcp) # <<>>,
       RuntimeRequirement("tool-server", Len(SelectSeq(tools, ExposedViaMcp)), "tools"))

\* ---- KiloCodeTarget ----

HasHeldHooks(agent) ==
  IsArray(Get(agent, "hooks")) /\ Get(agent, "hooks").items # <<>>

\* new Set(list || [])
SetOf(list) == IF Truthy(list) THEN Range(Iterate(list)) ELSE {}

\* mapToolGroups raises when a list that is set cannot be iterated
mapToolGroupsThrows(agent) ==
  LET allowedList == Get(Get(agent, "tools"), "allowed")
      disallowedList == Get(Get(agent, "tools"), "disallowed")
  IN \/ Truthy(allowedList) /\ ~Iterable(allowedList)
     \/ Truthy(disallowedList) /\ ~Iterable(disallowedList)

\* mapToolGroups: the KiloCode capability groups of an agent's mode
mapToolGroups(agent) ==
  LET allowedList == Get(Get(agent, "tools"), "allowed")
      disallowedList == Get(Get(agent, "tools"), "disallowed")
      allowed == SetOf(allowedList)
      disallowed == SetOf(disallowedList)
      readTools == { Str(<<"R","e","a","d">>), Str(<<"G","r","e","p">>), Str(<<"G","l","o","b">>) }
      editTools == { Str(<<"E","d","i","t">>), Str(<<"W","r","i","t","e">>) }
      bash == Str(<<"B","a","s","h">>)
  IN IF ~Truthy(allowedList) /\ ~Truthy(disallowedList)
       THEN <<"read", "edit", "browser", "command", "mcp">>
       ELSE When(readTools \cap allowed # {} \/ readTools \cap disallowed = {}, "read")
            \o When(editTools \cap allowed # {} /\ editTools \cap disallowed = {}, "edit")
            \o When(bash \in allowed \/ (bash \notin disallowed /\ allowed = {}), "command")
            \o <<"mcp">>

\* agentToMode and emitModes raise on an agent whose tool lists cannot be
\* iterated and on a name or instructions without a split method
agentToModeThrows(agent) ==
  \/ mapToolGroupsThrows(agent)
  \/ ~IsString(NameOf(agent))
  \/ ~IsString(Get(agent, "instructions"))

\* agentToMode: the warning for an agent that holds hooks
KiloAgentWarnings(agents) ==
  [k \in DOMAIN SelectSeq(agents, HasHeldHooks) |->
     BuildWarning([kind |-> "agent", name |-> NameOf(SelectSeq(agents, HasHeldHooks)[k])],
                  "Agent-scoped hooks are not supported in KiloCode", "warn")]

KiloHookWarnings(hs) ==
  When(Len(hs) > 0,
       BuildWarning([kind |-> "hooks"], "KiloCode does not support hooks natively", "warn"))

KiloHookRequirementsNone(hs) == <<>>
KiloHookRequirements(hs) ==
  When(Len(hs) > 0, RuntimeRequirement("hook-engine", Len(hs), "hooks"))

HasPermissions(policy) == Truthy(Get(policy, "permissions"))

\* one pattern list of emitPolicyAsRules: the list is rendered when its
\* length is truthy
RenderedPatterns(perms, key) ==
  IF Truthy(perms) /\ HasLength(Get(perms, key)) THEN Iterate(Get(perms, key)) ELSE <<>>

\* emitPolicyAsRules raises on a list with a length that cannot be iterated
emitPolicyAsRulesThrows(policy) ==
  LET perms == Get(policy, "permissions")
  IN /\ Truthy(perms)
     /\ \E key \in {"deny", "ask", "allow"} :
          HasLength(Get(perms, key)) /\ ~Iterable(Get(perms, key))

\* emitPolicyAsRules: the instructions and the pattern lists the text holds
emitPolicyAsRules(policy) ==
  LET perms == Get(policy, "permissions")
  IN [artifact |-> "policy-rules",
      name |-> NameOf(policy),
      instructions |-> Get(policy, "instructions"),
      deny  |-> RenderedPatterns(perms, "deny"),
      ask   |-> RenderedPatterns(perms, "ask"),
      allow |-> RenderedPatterns(perms, "allow")]

PolicyWarnings(policies, message, severity) ==
  [k \in DOMAIN SelectSeq(policies, HasPermissions) |->
     BuildWarning([kind |-> "policy", name |-> NameOf(SelectSeq(policies, HasPermissions)[k])],
                  message, severity)]

\* the skill emitters raise on an allowed list that cannot be joined
emitSkillThrows(skill) == JoinThrows(Get(Get(skill, "tools"), "allowed"))

\* KiloCodeTarget.compile raises a TypeError
KiloCodeThrows(i) ==
  \/ \E k \in DOMAIN i.skills : emitSkillThrows(i.skills[k])
  \/ \E k \in DOMAIN i.agents : agentToModeThrows(i.agents[k])
  \/ \E k \in DOMAIN i.policies :
       HasInstructions(i.policies[k]) /\ emitPolicyAsRulesThrows(i.policies[k])

KiloCodeCompile(i, acc) ==
  IF KiloCodeThrows(i) THEN ThrownOutput ELSE
  TargetOutput(
    MapSetAll(
      acc.files
      \o [k \in DOMAIN i.skills |->
            FileEntry(OutPath(<<".","k","i","l","o","c","o","d","e","/","s","k","i","l","l","s","/">>, NameOf(i.skills[k]), SkillMd),
                      [artifact |-> "skill", from |-> i.skills[k]])]
      \o When(Len(i.agents) > 0,
              FileEntry(<<".","k","i","l","o","c","o","d","e","m","o","d","e","s">>, [artifact |-> "modes", from |-> i.agents]))
      \o [k \in DOMAIN i.rules |->
            FileEntry(OutPath(<<".","k","i","l","o","c","o","d","e","/","r","u","l","e","s","/">>, Str(i.rules[k].name), <<>>),
                      [artifact |-> "rule", from |-> i.rules[k].content])]
      \o [k \in DOMAIN SelectSeq(i.policies, HasInstructions) |->
            FileEntry(OutPath(<<".","k","i","l","o","c","o","d","e","/","r","u","l","e","s","/","p","o","l","i","c","y","-">>,
                              NameOf(SelectSeq(i.policies, HasInstructions)[k]), DotMd),
                      emitPolicyAsRules(SelectSeq(i.policies, HasInstructions)[k]))]
      \o When(SelectSeq(i.tools, ExposedViaMcp) # <<>>,
              FileEntry(<<".","k","i","l","o","c","o","d","e","/","m","c","p",".","j","s","o","n">>, [artifact |-> "mcp-config"]))),
    acc.warnings
      \o KiloAgentWarnings(i.agents)
      \o KiloHookWarnings(i.hooks)
      \o PolicyWarnings(i.policies, "KiloCode does not support granular permission patterns", "warn"),
    acc.runtimeRequirements
      \o KiloHookRequirements(i.hooks)
      \o ToolServerRequirement(i.tools))

\* ---- ClaudeTarget ----

RECURSIVE ConcatPatterns(_, _)
\* emitPolicies: one of the merged lists
ConcatPatterns(policies, key) ==
  IF policies = <<>> THEN <<>>
  ELSE LET perms == Get(Head(policies), "permissions")
       IN (IF Truthy(perms) /\ Truthy(Get(perms, key))
             THEN Iterate(Get(perms, key)) ELSE <<>>)
          \o ConcatPatterns(Tail(policies), key)

emitPolicies(policies) ==
  [allow |-> ConcatPatterns(policies, "allow"),
   deny  |-> ConcatPatterns(policies, "deny"),
   ask   |-> ConcatPatterns(policies, "ask")]

\* emitPolicies raises on a list that is set and cannot be spread
emitPoliciesThrows(policies) ==
  \E k \in DOMAIN policies :
    LET perms == Get(policies[k], "permissions")
    IN /\ Truthy(perms)
       /\ \E key \in {"allow", "deny", "ask"} :
            Truthy(Get(perms, key)) /\ ~Iterable(Get(perms, key))

PermissionsEmpty(perms) == perms.allow = <<>> /\ perms.deny = <<>> /\ perms.ask = <<>>

\* buildInlineHooks raises on a held hook under an inherited key
buildInlineHooksThrows(comp) ==
  HasHeldHooks(comp) /\ \E k \in DOMAIN Get(comp, "hooks").items :
                          InheritedEvent(Get(comp, "hooks").items[k])

\* ClaudeTarget.compile raises a TypeError
ClaudeThrows(i) ==
  \/ \E k \in DOMAIN i.skills :
       emitSkillThrows(i.skills[k]) \/ buildInlineHooksThrows(i.skills[k])
  \/ \E k \in DOMAIN i.agents :
       \/ JoinThrows(Get(Get(i.agents[k], "tools"), "allowed"))
       \/ JoinThrows(Get(Get(i.agents[k], "tools"), "disallowed"))
       \/ buildInlineHooksThrows(i.agents[k])
  \/ \E k \in DOMAIN i.hooks : InheritedEvent(i.hooks[k])
  \/ emitPoliciesThrows(i.policies)

ClaudeCompile(i, acc) ==
  IF ClaudeThrows(i) THEN ThrownOutput ELSE
  TargetOutput(
    MapSetAll(
      acc.files
      \o [k \in DOMAIN i.skills |->
            FileEntry(OutPath(<<".","c","l","a","u","d","e","/","s","k","i","l","l","s","/">>, NameOf(i.skills[k]), SkillMd),
                      [artifact |-> "skill", from |-> i.skills[k]])]
      \o [k \in DOMAIN i.agents |->
            FileEntry(OutPath(<<".","c","l","a","u","d","e","/","a","g","e","n","t","s","/">>, NameOf(i.agents[k]), DotMd),
                      [artifact |-> "agent", from |-> i.agents[k]])]
      \o [k \in DOMAIN i.rules |->
            FileEntry(OutPath(<<".","c","l","a","u","d","e","/","r","u","l","e","s","/">>, Str(i.rules[k].name), <<>>),
                      [artifact |-> "rule", from |-> i.rules[k].content])]
      \o When(Len(i.rules) > 0,
              FileEntry(<<".","c","l","a","u","d","e","/","r","u","l","e","s","/","_","a","i","-","e","x","t","-","i","n","d","e","x",".","m","d">>,
                        [artifact |-> "rules-index", from |-> i.rules]))
      \o When(Len(i.hooks) > 0 \/ ~PermissionsEmpty(emitPolicies(i.policies)),
              FileEntry(<<".","c","l","a","u","d","e","/","s","e","t","t","i","n","g","s",".","j","s","o","n">>,
                        [artifact |-> "settings", hooks |-> i.hooks,
                         permissions |-> emitPolicies(i.policies)]))
      \o When(SelectSeq(i.tools, ExposedViaMcp) # <<>>,
              FileEntry(<<".","m","c","p",".","j","s","o","n">>, [artifact |-> "mcp-config"]))),
    acc.warnings,
    acc.runtimeRequirements \o ToolServerRequirement(i.tools))

\* ---- OpenCodeTarget ----

NativeTool(tool) ==
  LET exp == Get(tool, "exposure")
  IN IsNullish(exp) \/ Get(exp, "native") # Bool(FALSE)

\* a handler for which emitHooksPlugin writes a Bun.spawn call
SpawnedHandler(handler) ==
  Get(handler, "type") = Lit("command") /\ Truthy(Get(handler, "command"))

\* the body emitHooksPlugin writes for one hook point: per hook on the
\* event, its matcher test and the spawn calls of its handlers
PluginBlock(hs, event) ==
  LET OnEvent(h) == Get(h, "event") = Str(event)
      on == SelectSeq(hs, OnEvent)
  IN [k \in DOMAIN on |->
        [hook |-> on[k], matcher |-> Get(on[k], "matcher"),
         spawns |-> SelectSeq(Get(on[k], "handlers").items, SpawnedHandler)]]

emitHooksPlugin(hs) ==
  [before |-> PluginBlock(hs, EvPreToolUse), after |-> PluginBlock(hs, EvPostToolUse)]

\* emitHooksPlugin raises on a spawned handler whose command has no split method
emitHooksPluginThrows(hs) ==
  \E k \in DOMAIN hs :
    /\ Get(hs[k], "event") \in { Str(EvPreToolUse), Str(EvPostToolUse) }
    /\ \E n \in DOMAIN Get(hs[k], "handlers").items :
         /\ SpawnedHandler(Get(hs[k], "handlers").items[n])
         /\ ~IsString(Get(Get(hs[k], "handlers").items[n], "command"))

\* the values of the own properties of v
ValuesOf(v) ==
  IF v.type = "object" THEN { v.fields[k] : k \in DOMAIN v.fields }
  ELSE { x.value : x \in Range(EntriesOf(v)) }

\* emitNativeTool raises on a parameter that is null and, for a tool with
\* parameters, on a required list without an includes method
emitNativeToolThrows(tool) ==
  LET props == Get(Get(tool, "parameters"), "properties")
      required == Get(Get(tool, "parameters"), "required")
  IN /\ Truthy(props)
     /\ ValuesOf(props) # {}
     /\ \/ \E p \in ValuesOf(props) : IsNullish(p)
        \/ ~IsNullish(required) /\ ~Iterable(required)

\* emitAgent raises on a tool list that is set and cannot be iterated
emitAgentThrows(agent) == mapToolGroupsThrows(agent)

\* OpenCodeTarget.compile raises a TypeError
OpenCodeThrows(i) ==
  \/ \E k \in DOMAIN i.skills : emitSkillThrows(i.skills[k])
  \/ \E k \in DOMAIN i.agents : emitAgentThrows(i.agents[k])
  \/ emitHooksPluginThrows(i.hooks)
  \/ \E k \in DOMAIN i.tools : NativeTool(i.tools[k]) /\ emitNativeToolThrows(i.tools[k])

OpenCodeCompile(i, acc) ==
  IF OpenCodeThrows(i) THEN ThrownOutput ELSE
  TargetOutput(
    MapSetAll(
      acc.files
      \o [k \in DOMAIN i.skills |->
            FileEntry(OutPath(<<".","o","p","e","n","c","o","d","e","/","s","k","i","l","l","s","/">>, NameOf(i.skills[k]), SkillMd),
                      [artifact |-> "skill", from |-> i.skills[k]])]
      \o [k \in DOMAIN i.agents |->
            FileEntry(OutPath(<<".","o","p","e","n","c","o","d","e","/","a","g","e","n","t","s","/">>, NameOf(i.agents[k]), DotMd),
                      [artifact |-> "agent", from |-> i.agents[k]])]
      \o [k \in DOMAIN i.rules |->
            FileEntry(OutPath(<<".","o","p","e","n","c","o","d","e","/","r","u","l","e","s","/">>, Str(i.rules[k].name), <<>>),
                      [artifact |-> "rule", from |-> i.rules[k].content])]
      \o When(Len(i.hooks) > 0,
              FileEntry(<<".","o","p","e","n","c","o","d","e","/","p","l","u","g","i","n","s","/","a","i","-","e","x","t","-","h","o","o","k","s",".","t","s">>,
                        [artifact |-> "hooks-plugin", from |-> i.hooks,
                         plugin |-> emitHooksPlugin(i.hooks)]))
      \o [k \in DOMAIN SelectSeq(i.tools, NativeTool) |->
            FileEntry(OutPath(<<".","o","p","e","n","c","o","d","e","/","t","o","o","l","s","/">>, NameOf(SelectSeq(i.tools, NativeTool)[k]), <<".","t","s">>),
                      [artifact |-> "native-tool", from |-> SelectSeq(i.tools, NativeTool)[k]])]
      \o <<FileEntry(<<"o","p","e","n","c","o","d","e",".","j","s","o","n">>,
                     [artifact |-> "config", instructions |-> i.rules,
                      mcp |-> SelectSeq(i.tools, ExposedViaMcp) # <<>>,
                      plugin |-> Len(i.hooks) > 0])>>),
    acc.warnings
      \o PolicyWarnings(i.policies, "OpenCode uses per-agent permission globs", "info"),
    acc.runtimeRequirements \o ToolServerRequirement(i.tools))

\* ---- what the adapters write to ----

\* The object a statement writes to is one the compile call made (by a
\* literal, new, map or filter), or one reached from the IR argument by a
\* path of property names and indices.  The adapter classes declare no field
\* but the read-only name and displayName.
Made == [from |-> "call"]
InIr(path) == [from |-> "ir", path |-> path]

\* the statements at the given lines of a method write, by op, to the
\* object the local is bound to; args are the values written, for the lists
\* the model carries
Write(method, local, on, lines, op, args) ==
  [method |-> method, local |-> local, on |-> on, lines |-> lines, op |-> op, args |-> args]

\* the writes ws once for every item of xs
RECURSIVE PerItem(_, _)
PerItem(xs, ws) == IF xs = <<>> THEN <<>> ELSE ws \o PerItem(Tail(xs), ws)

\* buildInlineHooks: result, the array under an event, entry and handler are
\* made in the call
buildInlineHooksWrites(comp) ==
  IF ~HasHeldHooks(comp) THEN <<>>
  ELSE PerItem(Get(comp, "hooks").items,
               <<Write("buildInlineHooks", "result", Made, {667}, "set", <<>>),
                 Write("buildInlineHooks", "entry", Made, {671, 672}, "set", <<>>),
                 Write("buildInlineHooks", "handler", Made, 674..680, "set", <<>>),
                 Write("buildInlineHooks", "result[hook.event]", Made, {684}, "push", <<>>)>>)

RECURSIVE SkillWrites(_, _, _), AgentWrites(_, _, _)
\* an emitSkill / emitAgent call per component: fm is an object literal
SkillWrites(skills, lines, inline) ==
  IF skills = <<>> THEN <<>>
  ELSE <<Write("emitSkill", "fm", Made, lines, "set", <<>>)>>
       \o (IF inline THEN buildInlineHooksWrites(Head(skills)) ELSE <<>>)
       \o SkillWrites(Tail(skills), lines, inline)
AgentWrites(agents, lines, inline) ==
  IF agents = <<>> THEN <<>>
  ELSE <<Write("emitAgent", "fm", Made, lines, "set", <<>>)>>
       \o (IF inline THEN buildInlineHooksWrites(Head(agents)) ELSE <<>>)
       \o AgentWrites(Tail(agents), lines, inline)

\* KiloCodeTarget.compile: files, warnings and runtimeRequirements are made
\* at lines 44-46; agentToMode and emitTools are handed warnings and
\* runtimeRequirements; groups, lines and parts are array literals
KiloCodeWrites(i) ==
  <<Write("compile", "files", Made, {55, 61, 68, 90, 110}, "set", <<>>),
    Write("compile", "warnings", Made, {73, 98}, "push", <<>>),
    Write("compile", "runtimeRequirements", Made, {80}, "push", <<>>)>>
  \o SkillWrites(i.skills, {127, 130, 133, 136, 140, 147, 150, 154, 160, 161, 162, 166}, FALSE)
  \o PerItem(i.agents,
             <<Write("mapToolGroups", "groups", Made, {226, 232, 237, 241}, "push", <<>>),
               Write("agentToMode", "warnings", Made, {184}, "push", <<>>)>>)
  \o When(Len(i.agents) > 0, Write("emitModes", "lines", Made, 251..271, "push", <<>>))
  \o PerItem(SelectSeq(i.policies, HasInstructions),
             <<Write("emitPolicyAsRules", "parts", Made, 288..308, "push", <<>>)>>)
  \o When(SelectSeq(i.tools, ExposedViaMcp) # <<>>,
          Write("emitTools", "runtimeReqs", Made, {327}, "push", <<>>))

\* emitPolicies: what allow, deny and ask are bound to.  The code binds each
\* to an array literal (lines 604-606); bound to the list of the first
\* policy instead, the pushes would go to the IR.
FirstPolicyList(policies, key) ==
  IF policies # <<>> /\ IsArray(Get(Get(policies[1], "permissions"), key))
    THEN InIr(<<"policies", 1, "permissions", key>>)
    ELSE Made
NewList(policies, key) == Made

\* emitPolicies: the pushes of one policy, and of all of them in turn
PolicyPushes(policies, policy) ==
  LET perms == Get(policy, "permissions")
      Push(key, line) ==
        When(Truthy(perms) /\ Truthy(Get(perms, key)),
             Write("emitPolicies", key, NewList(policies, key), {line}, "push",
                   Iterate(Get(perms, key))))
  IN Push("allow", 610) \o Push("deny", 611) \o Push("ask", 612)

RECURSIVE PoliciesPushes(_, _)
PoliciesPushes(policies, rest) ==
  IF rest = <<>> THEN <<>>
  ELSE PolicyPushes(policies, Head(rest)) \o PoliciesPushes(policies, Tail(rest))

emitPoliciesWrites(policies) ==
  IF policies = <<>> THEN <<>>
  ELSE PoliciesPushes(policies, policies)
       \o <<Write("emitPolicies", "result", Made, {617, 618, 619}, "set", <<>>)>>

\* ClaudeTarget.compile: files, warnings and runtimeRequirements are made at
\* lines 409-411, ruleNames and settings are literals; in emitHooks
\* hooksConfig, the array under an event, entry and handler are made in the
\* call
ClaudeWrites(i) ==
  <<Write("compile", "files", Made, {416, 422, 432, 439, 460, 466}, "set", <<>>)>>
  \o SkillWrites(i.skills, {485, 488, 491, 497, 502, 505, 508, 513}, TRUE)
  \o AgentWrites(i.agents, {529, 530, 531, 532, 533, 537, 540, 545, 550}, TRUE)
  \o When(Len(i.rules) > 0, Write("compile", "ruleNames", Made, {433}, "push", <<>>))
  \o PerItem(i.hooks,
             <<Write("emitHooks", "hooksConfig", Made, {570}, "set", <<>>),
               Write("emitHooks", "entry", Made, {575, 578}, "set", <<>>),
               Write("emitHooks", "handler", Made, 580..586, "set", <<>>),
               Write("emitHooks", "hooksConfig[hook.event]", Made, {590}, "push", <<>>)>>)
  \o emitPoliciesWrites(i.policies)
  \o <<Write("compile", "settings", Made, {454, 457}, "set", <<>>)>>
  \o When(SelectSeq(i.tools, ExposedViaMcp) # <<>>,
          Write("emitTools", "runtimeReqs", Made, {639}, "push", <<>>))

\* OpenCodeTarget.compile: files, warnings and runtimeRequirements are made
\* at lines 30-32, ruleNames is a literal and is handed to buildConfig with
\* runtimeRequirements; fm, permission, lines and config are literals
OpenCodeWrites(i) ==
  <<Write("compile", "files", Made, {41, 47, 56, 62, 72, 77}, "set", <<>>)>>
  \o SkillWrites(i.skills, {106, 107, 108, 110}, FALSE)
  \o PerItem(i.agents,
             <<Write("emitAgent", "fm", Made, {125, 126, 141, 146}, "set", <<>>),
               Write("emitAgent", "permission", Made, {133, 138}, "set", <<>>)>>)
  \o When(Len(i.rules) > 0, Write("compile", "ruleNames", Made, {57}, "push", <<>>))
  \o When(Len(i.hooks) > 0, Write("emitHooksPlugin", "lines", Made, 174..234, "push", <<>>))
  \o PerItem(SelectSeq(i.tools, NativeTool),
             <<Write("emitNativeTool", "lines", Made, 264..286, "push", <<>>)>>)
  \o <<Write("buildConfig", "config", Made, {321, 333, 343}, "set", <<>>)>>
  \o When(SelectSeq(i.tools, ExposedViaMcp) # <<>>,
          Write("buildConfig", "runtimeReqs", Made, {327}, "push", <<>>))
  \o When(SelectSeq(i.policies, HasPermissions) # <<>>,
          Write("compile", "warnings", Made, {84}, "push", <<>>))

\* the writes of targets[targetName].compile(ir), in the order of the methods
Writes(target, i) ==
  CASE target = "claude"   -> ClaudeWrites(i)
    [] target = "kilocode" -> KiloCodeWrites(i)
    [] target = "opencode" -> OpenCodeWrites(i)

\* the value v after the write w to the object at path below it:
\* Array.prototype.push appends, an assignment sets the property
RECURSIVE Touch(_, _, _)
Touch(v, path, w) ==
  IF path = <<>>
    THEN IF w.op = "push" /\ IsArray(v) THEN Arr(v.items \o w.args)
         ELSE IF w.op = "set" /\ v.type = "object" /\ Len(w.args) = 2
           THEN Obj(Prop(w.args[1], w.args[2]) @@ v.fields)
         ELSE v
  ELSE IF v.type = "object"
    THEN Obj([v.fields EXCEPT ![Head(path)] = Touch(@, Tail(path), w)])
  ELSE IF v.type = "array"
    THEN Arr([v.items EXCEPT ![Head(path)] = Touch(@, Tail(path), w)])
  ELSE v

\* the IR after a write to an object of a component of one of its lists
IrWritten(i, w) ==
  LET path == w.on.path
  IN [i EXCEPT ![path[1]][path[2]] = Touch(@, SubSeq(path, 3, Len(path)), w)]

\* the IR after the writes ws, of which those to objects the call made
\* leave it as it is
RECURSIVE AfterWrites(_, _)
AfterWrites(i, ws) ==
  IF ws = <<>> THEN i
  ELSE AfterWrites(IF Head(ws).on.from = "ir" THEN IrWritten(i, Head(ws)) ELSE i, Tail(ws))

\* the IR argument when targets[targetName].compile(ir) has ended
IrAfter(target, i) == AfterWrites(i, Writes(target, i))

\* targets[targetName].compile(ir), from the accumulators it starts with
TargetCompile(target, i, acc) ==
  CASE target = "claude"   -> ClaudeCompile(i, acc)
    [] target = "kilocode" -> KiloCodeCompile(i, acc)
    [] target = "opencode" -> OpenCodeCompile(i, acc)

\* targets[targetName].compile(ir) raises
TargetThrows(target, i) == TargetCompile(target, i, FreshOutput(<<>>)).threw

\* the keys of the file map KiloCodeTarget.compile returns, in insertion order
KiloCodeFileKeys(i) ==
  [k \in DOMAIN KiloCodeCompile(i, FreshOutput(<<>>)).files |->
     KiloCodeCompile(i, FreshOutput(<<>>)).files[k].path]

\* the keys of the file map targets[targetName].compile(ir) returns
TargetFileKeys(target, i) ==
  [k \in DOMAIN TargetCompile(target, i, FreshOutput(<<>>)).files |->
     TargetCompile(target, i, FreshOutput(<<>>)).files[k].path]

\* outDir || join(sourceDir, "dist", targetName)
OutputBase(o) == IF o.outDir # "" THEN o.outDir ELSE "<sourceDir>/dist/" \o o.target

BuildOptions(target, outDir, dryRun, fix) ==
  [target |-> target, outDir |-> outDir, dryRun |-> dryRun, fixYamlDescriptions |-> fix]

OptionSets ==
  { BuildOptions("kilocode", "", dr, fx) : dr \in BOOLEAN, fx \in BOOLEAN }
  \cup { BuildOptions("kilocode", "out", FALSE, FALSE),
         BuildOptions("vscode", "", FALSE, TRUE),
         BuildOptions("constructor", "", FALSE, TRUE) }

\* a directory: extension.yaml, extension.yml, the component files, the rules
\* tree, the order readdirSync lists names in, and the written output
Disk(m, fs, rt) ==
  [manifest |-> m, yml |-> NoManifestFile, files |-> fs, rulesTree |-> rt,
   scan |-> "ascending", out |-> {}]

\* the example manifest as extension.yml
YmlManifest == ManifestFile(TRUE, "ok", Obj(ManifestFields))

\* the file sets with fewer than MaxFiles files
SmallFileSets ==
  { fs \in SetsUpTo(FileSamples, MaxFiles - 1) : \A f, g \in fs : FileId(f) = FileId(g) => f = g }

\* the extension directory compile and resolveExtension are called on: a
\* manifest other than the example's, a rules path other than a missing one
\* or the example's directory, and an extension.yml come with fewer than
\* MaxFiles files; the order of readdirSync varies where the rules map
\* holds several documents
DiskGiven ==
  /\ \/ \E fs \in FileSets, rt \in {MissingRules, StyleRules}, sc \in ScanOrders :
          disk = [Disk(ManifestFile(TRUE, "ok", Obj(ManifestFields)), fs, rt) EXCEPT !.scan = sc]
     \/ \E m \in ManifestSamples, fs \in SmallFileSets, rt \in RulesTrees, sc \in ScanOrders :
          disk = [Disk(m, fs, rt) EXCEPT !.scan = sc]
     \/ \E m \in { NoManifestFile,
                    ManifestFile(TRUE, "ok", Obj([ManifestFields EXCEPT !.version = Undef])) },
            fs \in SmallFileSets, rt \in {MissingRules, StyleRules} :
          disk = [Disk(m, fs, rt) EXCEPT !.yml = YmlManifest]
  /\ \/ disk.scan = "ascending"
     \/ Len(discoverRules(disk, Get(ManifestRead(disk).doc, "rules"))) > 1

\* ---- ai-ext init ----

MyExtension == <<"m","y","-","e","x","t","e","n","s","i","o","n">>
NmExample == <<"e","x","a","m","p","l","e">>
NmDemo == <<"d","e","m","o">>
ProjectRulesMd == <<"p","r","o","j","e","c","t","-","r","u","l","e","s",".","m","d">>

\* the name option of initExtension (empty: not given) and the last segment
\* of its dir option (empty: the path ends in a slash)
InitNames == { <<>>, NmLint }
DirBases ==
  { NmDemo, <<>>, <<"7">>, <<"0","0","7">>, <<"-","5">>, <<"1","e","3">>, <<"0","x","1","F">>,
    <<"1",".","5","0">>, <<"T","r","u","e">>, <<"N","U","L","L">>, <<"v","1",".","2">> }

\* name || dir.split("/").pop() || "my-extension"
extensionName(name, base) ==
  IF name # <<>> THEN name ELSE IF base # <<>> THEN base ELSE MyExtension

\* the number a run of digits stands for in a base
RECURSIVE DigitsValue(_, _)
DigitsValue(s, base) ==
  IF s = <<>> THEN 0
  ELSE base * DigitsValue(SubSeq(s, 1, Len(s) - 1), base)
       + (IF IsDigit(s[Len(s)]) THEN CharCode(s[Len(s)]) - CharCode("0")
          ELSE 10 + CharCode(LowerChar(s[Len(s)])) - CharCode("a"))
DecimalValue(s) == DigitsValue(s, 10)

AllDigits(s) == \A i \in DOMAIN s : IsDigit(s[i])
AllOctal(s) == \A i \in DOMAIN s : s[i] \in {"0","1","2","3","4","5","6","7"}
AllHex(s) ==
  \A i \in DOMAIN s : IsDigit(s[i]) \/ LowerChar(s[i]) \in {"a","b","c","d","e","f"}

\* a scalar without its sign, and the sign
Unsigned(s) == IF s # <<>> /\ Head(s) \in {"-", "+"} THEN Tail(s) ELSE s
SignOf(s) == IF s # <<>> /\ Head(s) = "-" THEN 0 - 1 ELSE 1

\* the number m * 10^e
RECURSIVE Decimal(_, _)
Decimal(m, e) ==
  IF m = 0 THEN Num(0)
  ELSE IF e >= 0 THEN Num(m * 10^e)
  ELSE IF m % 10 = 0 THEN Decimal(m \div 10, e + 1)
  ELSE Frac(m, e)

\* \.[0-9]+ | [0-9]+(\.[0-9]*)?  and, without an exponent,  \.[0-9]+ | [0-9]+\.[0-9]*
IsMantissa(b) ==
  LET dot == IndexOf(b, <<".">>)
  IN IF dot = 0 THEN b # <<>> /\ AllDigits(b)
     ELSE /\ AllDigits(SubSeq(b, 1, dot - 1))
          /\ AllDigits(SubSeq(b, dot + 1, Len(b)))
          /\ (dot > 1 \/ dot < Len(b))
IsExponent(x) == Unsigned(x) # <<>> /\ AllDigits(Unsigned(x))

\* where the exponent mark of a scalar is, 0 if it has none
ExponentAt(s) ==
  LET marks == { i \in DOMAIN s : s[i] \in {"e", "E"} }
  IN IF marks = {} THEN 0 ELSE CHOOSE i \in marks : \A k \in marks : i <= k

\* the number a float scalar stands for: mantissa b, exponent x
FloatValue(sign, b, x) ==
  LET dot == IndexOf(b, <<".">>)
      whole == IF dot = 0 THEN b ELSE SubSeq(b, 1, dot - 1)
      part == IF dot = 0 THEN <<>> ELSE SubSeq(b, dot + 1, Len(b))
  IN Decimal(sign * DecimalValue(whole \o part),
             (IF x = <<>> THEN 0 ELSE SignOf(x) * DecimalValue(Unsigned(x))) - Len(part))

\* what parseYaml (YAML 1.2 core schema) reads the plain scalar of
\* `name: ${name}` as: null, a boolean, a number or a string.  The name is
\* not empty and is one plain scalar: letters, digits and the characters
\* - + . _ with a letter or digit among them, or the one character ~; the
\* digits of a number stay below 2^31.
PlainScalar(s) ==
  LET at == ExponentAt(s)
  IN IF s \in { <<"~">>, <<"n","u","l","l">>, <<"N","u","l","l">>, <<"N","U","L","L">> }
       THEN Null
     ELSE IF s \in { <<"t","r","u","e">>, <<"T","r","u","e">>, <<"T","R","U","E">> }
       THEN Bool(TRUE)
     ELSE IF s \in { <<"f","a","l","s","e">>, <<"F","a","l","s","e">>, <<"F","A","L","S","E">> }
       THEN Bool(FALSE)
     ELSE IF Len(s) > 2 /\ SubSeq(s, 1, 2) = <<"0","o">> /\ AllOctal(SubSeq(s, 3, Len(s)))
       THEN Num(DigitsValue(SubSeq(s, 3, Len(s)), 8))
     ELSE IF Unsigned(s) # <<>> /\ AllDigits(Unsigned(s))
       THEN Num(SignOf(s) * DecimalValue(Unsigned(s)))
     ELSE IF Len(s) > 2 /\ SubSeq(s, 1, 2) = <<"0","x">> /\ AllHex(SubSeq(s, 3, Len(s)))
       THEN Num(DigitsValue(SubSeq(s, 3, Len(s)), 16))
     ELSE IF Unsigned(s) \in { <<".","i","n","f">>, <<".","I","n","f">>, <<".","I","N","F">> }
       THEN Infinity(SignOf(s))
     ELSE IF s \in { <<".","n","a","n">>, <<".","N","a","N">>, <<".","N","A","N">> }
       THEN NaN
     ELSE IF at > 0 /\ IsMantissa(SubSeq(Unsigned(s), 1, at - 1 - (Len(s) - Len(Unsigned(s)))))
                   /\ IsExponent(SubSeq(s, at + 1, Len(s)))
       THEN FloatValue(SignOf(s), SubSeq(Unsigned(s), 1, at - 1 - (Len(s) - Len(Unsigned(s)))),
                       SubSeq(s, at + 1, Len(s)))
     ELSE IF at = 0 /\ IndexOf(s, <<".">>) # 0 /\ IsMantissa(Unsigned(s))
       THEN FloatValue(SignOf(s), Unsigned(s), <<>>)
     ELSE Str(s)

\* MANIFEST_TEMPLATE(name), as loadManifest reads it
TemplateManifest(name) ==
  ManifestFile(TRUE, "ok",
    Obj([name |-> PlainScalar(name), version |-> Lit("0.1.0"), description |-> Text(29),
         author |-> Lit(""), license |-> Lit("MIT"),
         skills |-> Str(DotSlash(DirChars("skill"))), agents |-> Str(DotSlash(DirChars("agent"))),
         hooks |-> Str(DotSlash(DirChars("hook"))), tools |-> Str(DotSlash(DirChars("tool"))),
         policies |-> Str(DotSlash(DirChars("policy"))), rules |-> Str(DotSlash(RulesDirName))]))

\* EXAMPLE_SKILL at skills/example/SKILL.md
ExampleSkill ==
  File("skill", NmExample, "ok", "plain",
       Meta(NmExample, Text(62)) @@ Prop("allowed-tools", Str(<<"R","e","a","d"," ","G","r","e","p"," ","G","l","o","b">>)),
       "You are a helpful assistant with access to the project codebase.\n\nWhen asked to help, use the available tools to read and search files.\n\nProvide clear, concise answers with file references.")

\* EXAMPLE_RULE at rules/project-rules.md
ProjectRules ==
  RuleFile(<<ProjectRulesMd>>, "# Project Rules\n\n## Code Style\n- Use consistent formatting\n- Write clear comments\n- Follow the project's existing conventions\n")

\* a skill of the user's at the path of the example skill
MineSkill == File("skill", NmExample, "ok", "plain", Meta(NmExample, ShortText), "Mine.")

\* a skill of the user's below a directory named like the example skill's file
SkillBelowExample ==
  Below(<<NmExample, FileName("skill")>>,
        File("skill", NmLint, "ok", "plain", Meta(NmLint, ShortText), "Run the linter."))

\* the directories initExtension is called on: an empty one, one holding
\* extension.yml only, one holding a skill and a rule at the paths of the
\* examples, an initialized one, one whose path rules is a file, and two
\* where the path of the example rule or of the example skill is a directory
InitDisks ==
  { Disk(NoManifestFile, {}, MissingRules),
    [Disk(NoManifestFile, {}, MissingRules) EXCEPT !.yml = YmlManifest],
    Disk(NoManifestFile, {MineSkill},
         RulesTree("dir", { RuleFile(<<StyleMd>>, "Use two spaces."),
                            RuleFile(<<ProjectRulesMd>>, "Mine.") })),
    Disk(ManifestFile(TRUE, "ok", Obj(ManifestFields)), {}, MissingRules),
    Disk(NoManifestFile, {}, RulesAsFile),
    Disk(NoManifestFile, {},
         RulesTree("dir", { RuleFile(<<ProjectRulesMd, StyleMd>>, "Inner.") })),
    Disk(NoManifestFile, {SkillBelowExample}, MissingRules) }

\* mkdirSync(path, { recursive: true }) raises when the path is a file
mkdirThrows(d, p) == PathType(d, p) = "file"

\* writeFileSync(path, text) raises when the path is a directory
writeFileThrows(d, p) == PathType(d, p) = "dir"

\* the paths of the second and the third writeFileSync call of initExtension
ExampleSkillPath == Segments(ExampleSkill)
ProjectRulesPath == <<RulesDirName>> \o ProjectRules.path

\* a writeFileSync call of initExtension raises: extension.yaml is missing
\* when it is written
InitWriteThrows(d) ==
  writeFileThrows(d, ExampleSkillPath) \/ writeFileThrows(d, ProjectRulesPath)

\* the directory after the mkdirSync calls and the writeFileSync calls of
\* initExtension up to the first that raises
Initialized(d, name) ==
  LET made == [d EXCEPT !.rulesTree = RulesTree("dir", @.docs),
                        !.manifest = TemplateManifest(name)]
      skill == [made EXCEPT !.files = { f \in @ : Segments(f) # ExampleSkillPath }
                                        \cup {ExampleSkill}]
      rule == [skill EXCEPT !.rulesTree = RulesTree("dir", { r \in @.docs : r.path # ProjectRules.path }
                                                            \cup {ProjectRules})]
  IN IF writeFileThrows(d, ExampleSkillPath) THEN made
     ELSE IF writeFileThrows(d, ProjectRulesPath) THEN skill
     ELSE rule

\* no library function has been called
NoArgument == [kind |-> "none"]
NoReturns == [f \in {} |-> Undef]

\* no invocations in flight together
InitConcIdle ==
  /\ invs = <<>>
  /\ hooks0 = <<>>

InitPureIdle ==
  /\ fnIn = NoArgument
  /\ fnOut = NoReturns
  /\ InitConcIdle

InitBuildIdle ==
  /\ disk = Disk(NoManifestFile, {}, MissingRules)
  /\ disk0 = disk
  /\ opts = BuildOptions("kilocode", "", TRUE, FALSE)
  /\ cpc = "idle"
  /\ rpc = "idle"
  /\ kindIx = 1
  /\ queue = <<>>
  /\ manifest = Undef
  /\ errors = <<>>
  /\ lists = NoLists
  /\ ir = NoIR
  /\ valid = FALSE
  /\ failure = ""
  /\ adapterRuns = 0
  /\ outFiles = <<>>
  /\ wi = 1
  /\ matterCache = {}

InitHookIdle ==
  /\ hooks = <<>>
  /\ emuTools = NoTools
  /\ pc = "off"
  /\ call = [toolName |-> <<>>, args |-> NoArgs]
  /\ matching = <<>>
  /\ hi = 1
  /\ hj = 1
  /\ proc = NoProc
  /\ result = NoResult
  /\ started = <<>>
  /\ finished = 0
  /\ exit2 = NoProc
  /\ failed = FALSE
  /\ allExit0 = TRUE
  /\ thrown = ""

InitBuild ==
  /\ \/ DiskGiven /\ cpc = "ready"
     \/ disk \in InitDisks /\ cpc = "new"
  /\ disk0 = disk
  /\ opts \in OptionSets
  /\ rpc = "idle"
  /\ kindIx = 1
  /\ queue = <<>>
  /\ manifest = Undef
  /\ errors = <<>>
  /\ lists = NoLists
  /\ ir = NoIR
  /\ valid = FALSE
  /\ failure = ""
  /\ adapterRuns = 0
  /\ outFiles = <<>>
  /\ wi = 1
  /\ matterCache = {}
  /\ InitHookIdle
  /\ tir = NoIR
  /\ tir0 = NoIR
  /\ outs = [t \in SupportedTargets |-> <<>>]
  /\ InitPureIdle

\* an exception leaves resolveExtension and, uncaught, compile
Throw(msg) ==
  /\ rpc' = "thrown"
  /\ cpc' = "thrown"
  /\ failure' = msg

\* names every plain object inherits: targets[name] is truthy for them
InheritedNames ==
  { "constructor", "toString", "valueOf", "hasOwnProperty", "__proto__",
    "isPrototypeOf", "propertyIsEnumerable", "toLocaleString",
    "__defineGetter__", "__defineSetter__", "__lookupGetter__", "__lookupSetter__" }

\* targets[targetName] is truthy
Registered(target) == target \in SupportedTargets \cup InheritedNames

\* initExtension on a directory, before the call of compile or of
\* resolveExtension: raises when extension.yaml exists or a directory cannot
\* be made, else writes the manifest, the example skill and the example rule,
\* raising at the first of them whose path is a directory
InitExtension ==
  /\ cpc = "new"
  /\ \E name \in InitNames, base \in DirBases :
       IF disk.manifest.exists
         THEN /\ cpc' = "thrown" /\ failure' = "Extension already exists"
              /\ UNCHANGED <<disk, rpc>>
         ELSE IF \E k \in DOMAIN Kinds : mkdirThrows(disk, <<DirChars(Kinds[k])>>)
                 \/ mkdirThrows(disk, <<DirChars("skill"), NmExample>>)
                 \/ mkdirThrows(disk, <<RulesDirName>>)
           THEN /\ cpc' = "thrown" /\ failure' = "EEXIST: file already exists, mkdir"
                /\ UNCHANGED <<disk, rpc>>
           ELSE /\ disk' = Initialized(disk, extensionName(name, base))
                /\ IF InitWriteThrows(disk)
                     THEN /\ cpc' = "thrown"
                          /\ failure' = "EISDIR: illegal operation on a directory, open"
                          /\ rpc' = rpc
                     ELSE /\ IF fnIn.kind = "directory"
                               THEN cpc' = "off" /\ rpc' = "manifest"
                               ELSE cpc' = "ready" /\ rpc' = rpc
                          /\ failure' = failure
  /\ disk0' = disk'
  /\ UNCHANGED <<opts, kindIx, queue, manifest, errors, lists, ir, valid, adapterRuns,
                 outFiles, wi>>
  /\ UNCHANGED <<matterCache, hookVars, adapterVars, pureVars, concVars>>

\* compile, 1: look the target up in the registry
ValidateTarget ==
  /\ cpc = "ready"
  /\ IF ~Registered(opts.target)
       THEN cpc' = "thrown" /\ failure' = "Unknown target" /\ rpc' = rpc
       ELSE cpc' = "resolving" /\ failure' = failure /\ rpc' = "manifest"
  /\ UNCHANGED <<disk, disk0, opts, kindIx, queue, manifest, errors, lists, ir,
                 valid, adapterRuns, outFiles, wi>>
  /\ UNCHANGED <<matterCache, hookVars, adapterVars, pureVars, concVars>>

\* resolveExtension, 1: loadManifest, validateManifest, collectErrors
LoadManifest ==
  /\ rpc = "manifest"
  /\ IF loadManifestError(disk) # ""
       THEN /\ Throw(loadManifestError(disk))
            /\ UNCHANGED <<manifest, errors>>
       ELSE /\ manifest' = ManifestRead(disk).doc
            /\ errors' = errors \o collectErrors([kind |-> "manifest"], <<"extension.yaml">>,
                                                 validateManifest(ManifestRead(disk).doc))
            /\ rpc' = "discover"
            /\ UNCHANGED <<cpc, failure>>
  /\ UNCHANGED <<disk, disk0, opts, kindIx, queue, lists, ir, valid, adapterRuns, outFiles, wi>>
  /\ UNCHANGED <<matterCache, hookVars, adapterVars, pureVars, concVars>>

\* where resolveExtension goes when the files of kind number k are done
AfterKind(k) == IF k < Len(Kinds) THEN <<"discover", k + 1>> ELSE <<"rules", k>>

\* resolveExtension, 2-6: discoverComponents for the current kind
Discover ==
  /\ rpc = "discover"
  /\ LET kind == Kinds[kindIx]
         componentDir == Get(manifest, KindField(kind))
         found == discoverComponents(disk, componentDir, kind)
     IN IF discoverComponentsThrows(disk, componentDir)
          THEN /\ Throw(discoverComponentsError(disk, componentDir))
               /\ UNCHANGED <<queue, kindIx>>
          ELSE /\ queue' = found
               /\ IF found = <<>>
                    THEN rpc' = AfterKind(kindIx)[1] /\ kindIx' = AfterKind(kindIx)[2]
                    ELSE rpc' = "files" /\ kindIx' = kindIx
               /\ UNCHANGED <<cpc, failure>>
  /\ UNCHANGED <<disk, disk0, opts, manifest, errors, lists, ir, valid, adapterRuns, outFiles, wi>>
  /\ UNCHANGED <<matterCache, hookVars, adapterVars, pureVars, concVars>>

\* resolveExtension, 2-6: one iteration of the loop over the files of a
\* kind: parseMarkdownFile (which may rewrite the file, and whose matter()
\* call adds the text to the cache), the parser, the validator,
\* collectErrors and the push, or the catch block
ResolveFile ==
  /\ rpc = "files"
  /\ queue # <<>>
  /\ LET f == Head(queue)
         kind == f.kind
         parsed == AfterParse(f, opts.fixYamlDescriptions)
     IN /\ disk' = [disk EXCEPT !.files = (@ \ {f}) \cup {parsed}]
        /\ errors' = errors \o FileFindings(parsed, matterCache)
        /\ lists' = [lists EXCEPT ![kind] = @ \o FileComponents(parsed, matterCache)]
        /\ matterCache' = matterCache \cup {TextOf(parsed)}
  /\ queue' = Tail(queue)
  /\ IF Tail(queue) = <<>>
       THEN rpc' = AfterKind(kindIx)[1] /\ kindIx' = AfterKind(kindIx)[2]
       ELSE rpc' = rpc /\ kindIx' = kindIx
  /\ UNCHANGED <<disk0, opts, cpc, manifest, ir, valid, failure, adapterRuns, outFiles, wi>>
  /\ UNCHANGED <<hookVars, adapterVars, pureVars, concVars>>

\* resolveExtension, 7 and the return: discoverRules, the IR, valid
FinishResolve ==
  /\ rpc = "rules"
  /\ LET rulesDir == Get(manifest, "rules")
     IN IF discoverRulesError(disk, rulesDir) # ""
          THEN /\ Throw(discoverRulesError(disk, rulesDir))
               /\ UNCHANGED <<ir, valid>>
          ELSE /\ ir' = [built |-> TRUE, manifest |-> manifest,
                         skills |-> lists["skill"], agents |-> lists["agent"],
                         hooks |-> lists["hook"], tools |-> lists["tool"],
                         policies |-> lists["policy"],
                         rules |-> discoverRules(disk, rulesDir)]
               /\ valid' = ~HasErrors(errors)
               /\ rpc' = "returned"
               /\ UNCHANGED <<cpc, failure>>
  /\ UNCHANGED <<disk, disk0, opts, kindIx, queue, manifest, errors, lists,
                 adapterRuns, outFiles, wi>>
  /\ UNCHANGED <<matterCache, hookVars, adapterVars, pureVars, concVars>>

\* compile, 2: resolution produced an error finding
RejectInvalid ==
  /\ cpc = "resolving"
  /\ rpc = "returned"
  /\ ~valid
  /\ cpc' = "thrown"
  /\ failure' = "Extension validation failed"
  /\ UNCHANGED <<disk, disk0, opts, rpc, kindIx, queue, manifest, errors, lists, ir,
                 valid, adapterRuns, outFiles, wi>>
  /\ UNCHANGED <<matterCache, hookVars, adapterVars, pureVars, concVars>>

\* the TypeError an adapter's compile raised, which compile does not catch
AdapterRaised == "TypeError raised in target.compile"

\* compile, 3: target.compile(ir); a value the registry inherited is not
\* an adapter and calling its compile raises a TypeError
RunAdapter ==
  /\ cpc = "resolving"
  /\ rpc = "returned"
  /\ valid
  /\ IF opts.target \notin SupportedTargets
       THEN /\ cpc' = "thrown"
            /\ failure' = "TypeError: target.compile is not a function"
            /\ UNCHANGED <<adapterRuns, outFiles, wi, ir>>
       ELSE IF TargetThrows(opts.target, ir)
         THEN /\ adapterRuns' = adapterRuns + 1
              /\ cpc' = "thrown"
              /\ failure' = AdapterRaised
              /\ ir' = IrAfter(opts.target, ir)
              /\ UNCHANGED <<outFiles, wi>>
         ELSE /\ adapterRuns' = adapterRuns + 1
              /\ outFiles' = TargetFileKeys(opts.target, ir)
              /\ ir' = IrAfter(opts.target, ir)
              /\ wi' = 1
              /\ cpc' = IF opts.dryRun \/ TargetFileKeys(opts.target, ir) = <<>>
                          THEN "done" ELSE "writing"
              /\ failure' = failure
  /\ UNCHANGED <<disk, disk0, opts, rpc, kindIx, queue, manifest, errors, lists, valid>>
  /\ UNCHANGED <<matterCache, hookVars, adapterVars, pureVars, concVars>>

\* compile, 4: one iteration of the loop that writes the files
WriteFile ==
  /\ cpc = "writing"
  /\ wi <= Len(outFiles)
  /\ disk' = [disk EXCEPT !.out = @ \cup {[base |-> OutputBase(opts), path |-> outFiles[wi]]}]
  /\ wi' = wi + 1
  /\ cpc' = IF wi = Len(outFiles) THEN "done" ELSE "writing"
  /\ UNCHANGED <<disk0, opts, rpc, kindIx, queue, manifest, errors, lists, ir,
                 valid, failure, adapterRuns, outFiles>>
  /\ UNCHANGED <<matterCache, hookVars, adapterVars, pureVars, concVars>>

\* the output tree after a write raised: compile has no catch block
RolledBack(out) == {}
LeftAsIs(out) == out

\* compile, 4: mkdirSync or writeFileSync raises for the file the loop has
\* reached; the exception leaves the loop and compile
WriteFails ==
  /\ cpc = "writing"
  /\ wi <= Len(outFiles)
  /\ disk' = [disk EXCEPT !.out = LeftAsIs(@)]
  /\ cpc' = "thrown"
  /\ failure' = "write failed"
  /\ UNCHANGED <<disk0, opts, rpc, kindIx, queue, manifest, errors, lists, ir,
                 valid, adapterRuns, outFiles, wi>>
  /\ UNCHANGED <<matterCache, hookVars, adapterVars, pureVars, concVars>>

NextBuild ==
  \/ InitExtension
  \/ ValidateTarget
  \/ LoadManifest
  \/ Discover
  \/ ResolveFile
  \/ FinishResolve
  \/ RejectInvalid
  \/ RunAdapter
  \/ WriteFile
  \/ WriteFails

SpecBuild == InitBuild /\ [][NextBuild]_vars

\* resolveExtension called directly, twice, on one directory
InitResolve ==
  /\ \/ DiskGiven /\ cpc = "off" /\ rpc = "manifest"
     \/ disk \in InitDisks /\ cpc = "new" /\ rpc = "idle"
  /\ disk0 = disk
  /\ opts \in { BuildOptions("kilocode", "", TRUE, fix) : fix \in BOOLEAN }
  /\ kindIx = 1
  /\ queue = <<>>
  /\ manifest = Undef
  /\ errors = <<>>
  /\ lists = NoLists
  /\ ir = NoIR
  /\ valid = FALSE
  /\ failure = ""
  /\ adapterRuns = 0
  /\ outFiles = <<>>
  /\ wi = 1
  /\ matterCache = {}
  /\ InitHookIdle
  /\ tir = NoIR
  /\ tir0 = NoIR
  /\ outs = [t \in SupportedTargets |-> <<>>]
  /\ fnIn = [kind |-> "directory"]
  /\ fnOut = NoReturns
  /\ InitConcIdle

\* what the call of resolveExtension that has ended produced
ResolveResult ==
  IF rpc = "thrown"
    THEN [threw |-> TRUE, message |-> failure]
    ELSE [threw |-> FALSE, ir |-> ir, errors |-> errors, valid |-> valid]

\* the caller keeps the first result and calls resolveExtension again
ResolveAgain ==
  /\ fnIn.kind = "directory"
  /\ rpc \in {"returned", "thrown"}
  /\ "resolveExtension" \notin DOMAIN fnOut
  /\ fnOut' = fnOut @@ ("resolveExtension" :> ResolveResult)
  /\ rpc' = "manifest"
  /\ cpc' = "off"
  /\ kindIx' = 1
  /\ queue' = <<>>
  /\ manifest' = Undef
  /\ errors' = <<>>
  /\ lists' = NoLists
  /\ ir' = NoIR
  /\ valid' = FALSE
  /\ failure' = ""
  /\ UNCHANGED <<disk, disk0, opts, adapterRuns, outFiles, wi, fnIn>>
  /\ UNCHANGED <<matterCache, hookVars, adapterVars, concVars>>

NextResolve ==
  \/ InitExtension
  \/ LoadManifest
  \/ Discover
  \/ ResolveFile
  \/ FinishResolve
  \/ ResolveAgain

SpecResolve == InitResolve /\ [][NextResolve]_vars

-----------------------------------------------------------------------------
(* Target adapters called on an IR                                         *)

HookFile(dir, ev, strategy, body) ==
  File("hook", dir, "ok", "plain",
       Meta(dir, ShortText) @@ [event |-> Str(ev), handlers |-> Arr(<<CommandEntry>>)]
         @@ PropIf(strategy # "", "fallback", Obj(Prop("strategy", Lit(strategy)))),
       body)

ToolFile(dir, exposure) ==
  File("tool", dir, "ok", "plain",
       Meta(dir, ShortText)
         @@ [implementation |-> Obj([type |-> Lit("command"), command |-> Lit("eslint {{files}}")]),
             exposure |-> exposure],
       "")

MoreFileSamples ==
  { HookFile(NmFmt, EvPreToolUse, "ignore", ""),
    HookFile(NmFmt, EvPreToolUse, "mcp-tool", ""),
    HookFile(NmReview, EvSessionStart, "skill-injection", "Remind the user of the style guide."),
    HookFile(NmReview, EvPreToolUse, "", ""),
    ToolFile(NmFmt, Obj(Prop("mcp", Bool(FALSE)))),
    ToolFile(NmReview, Obj(Prop("native", Bool(FALSE)))),
    File("policy", NmFmt, "ok", "plain",
         Meta(NmFmt, ShortText) @@ Prop("permissions",
              Obj([deny  |-> Arr(<<Lit("Bash(rm *)")>>),
                   ask   |-> Arr(<<Lit("Bash(git push *)")>>),
                   allow |-> Arr(<<Lit("Read"), Lit("Grep")>>)])), ""),
    WithBody(File("policy", NmLint, "ok", "plain",
                  Meta(NmLint, ShortText) @@ Prop("permissions",
                       Obj(Prop("deny", Arr(<<Lit("Read(.env)")>>)))), ""),
             <<" "," ","\n">>),
    File("agent", NmFmt, "ok", "plain",
         Meta(NmFmt, ShortText) @@ Prop("tools", Obj(Prop("allowed", Num(5)))), "Five."),
    File("policy", NmReview, "ok", "plain", Meta(NmReview, ShortText), "Be careful."),
    File("skill", NmReview, "ok", "plain",
         Meta(NmReview, ShortText) @@ Prop("user-invocable", Bool(FALSE)), "Review quietly.") }

\* the sample files resolveExtension accepts without an error finding
CleanFiles ==
  { f \in FileSamples \cup MoreFileSamples :
      /\ ~FileThrows(f, {})
      /\ Validate(f.kind, ValidatorInput(f.kind, ParseFile(f))).errors = <<>> }

MaxComponents == 2

CleanFileSets ==
  { fs \in SetsUpTo(CleanFiles, MaxComponents) :
      \A f, g \in fs : FileId(f) = FileId(g) => f = g }

\* the component list resolveExtension builds for a kind from clean files
ComponentsOf(fs, kind) ==
  LET q == SortFiles({ f \in fs : f.kind = kind })
  IN [k \in DOMAIN q |-> ParseFile(q[k])]

ExtensionIR(fs, rules) ==
  [built |-> TRUE, manifest |-> Obj(ManifestFields),
   skills |-> ComponentsOf(fs, "skill"), agents |-> ComponentsOf(fs, "agent"),
   hooks |-> ComponentsOf(fs, "hook"), tools |-> ComponentsOf(fs, "tool"),
   policies |-> ComponentsOf(fs, "policy"), rules |-> rules]

MaxCompiles == 2

NoOutputs == [t \in SupportedTargets |-> <<>>]

\* the accumulators left by the previous call on the adapter instance
PreviousOutput(t) ==
  IF outs[t] = <<>> THEN TargetOutput(<<>>, <<>>, <<>>) ELSE outs[t][Len(outs[t])]

InitAdapterIdle ==
  /\ tir = NoIR
  /\ tir0 = NoIR
  /\ outs = NoOutputs

InitAdapter ==
  /\ tir \in { ExtensionIR(fs, rules) : fs \in CleanFileSets, rules \in {<<>>, <<RuleDoc>>} }
  /\ tir0 = tir
  /\ outs = NoOutputs
  /\ InitHookIdle
  /\ InitBuildIdle
  /\ InitPureIdle

\* target.compile(ir) on one of the three adapter instances: what it
\* returns, and what its writes leave of the IR
AdapterCompile(t) ==
  /\ tir.built
  /\ Len(outs[t]) < MaxCompiles
  /\ outs' = [outs EXCEPT ![t] = Append(@, TargetCompile(t, tir, FreshOutput(PreviousOutput(t))))]
  /\ tir' = IrAfter(t, tir)
  /\ UNCHANGED tir0
  /\ UNCHANGED <<hookVars, buildVars, pureVars, concVars>>

ClaudeCompiles == AdapterCompile("claude")
KiloCodeCompiles == AdapterCompile("kilocode")
OpenCodeCompiles == AdapterCompile("opencode")

NextAdapter ==
  \/ ClaudeCompiles
  \/ KiloCodeCompiles
  \/ OpenCodeCompiles

SpecAdapter == InitAdapter /\ [][NextAdapter]_vars

\* the hook engine of a runtime in which no build is under way
InitEngine == InitHook /\ InitBuildIdle /\ InitAdapterIdle /\ InitPureIdle

SpecHook == InitEngine /\ [][NextHook]_vars

\* the event loop resumes a call whose awaited process has exited, and runs
\* a call that is ready to start its next handler
FairSpecHook ==
  /\ SpecHook
  /\ WF_vars(StartHandler) /\ WF_vars(HandlerExits)
  /\ WF_vars(StdoutRead) /\ WF_vars(StderrRead) /\ WF_vars(HandlerReturns)

-----------------------------------------------------------------------------
(* Probe invocations in flight together on one HookEngine                  *)

MaxInvocations == 2
Invocations == 1..MaxInvocations

MaxEngineHooks == 2

EngineHookSamples ==
  { MkHook(EvPreToolUse,   NoMatcher, <<CommandHandler>>),
    MkHook(EvPreToolUse,   MEdit,     <<PromptHandler, CommandHandler>>) }

EngineCalls ==
  { [toolName |-> ProbePreToolUse,   args |-> ArgsTool(SEdit)],
    [toolName |-> ProbePreToolUse,   args |-> ArgsTool(SBash)],
    [toolName |-> ProbeSessionStart, args |-> ArgsTool(SEdit)] }

\* a process that never exits is one that has not exited yet in every state
\* these invocations reach
EngineProcBehaviours == { Exit(0, "lint ok", ""), Exit(2, "", "blocked") }

\* the locals of a call of executeEmulatedHook that has not been made;
\* outcomes is history: per handler started, the process it spawned (NoProc if
\* it spawned none)
NotCalled ==
  [pc |-> "idle", call |-> [toolName |-> <<>>, args |-> NoArgs], matching |-> <<>>,
   hi |-> 1, hj |-> 1, proc |-> NoProc, result |-> NoResult, outcomes |-> <<>>,
   started |-> 0, finished |-> 0]

InitConcurrent ==
  /\ hooks \in SeqsUpTo(EngineHookSamples, MaxEngineHooks)
  /\ hooks0 = hooks
  /\ invs = [i \in Invocations |-> NotCalled]
  /\ emuTools = NoTools
  /\ pc = "off"
  /\ call = [toolName |-> <<>>, args |-> NoArgs]
  /\ matching = <<>>
  /\ hi = 1
  /\ hj = 1
  /\ proc = NoProc
  /\ result = NoResult
  /\ started = <<>>
  /\ finished = 0
  /\ exit2 = NoProc
  /\ failed = FALSE
  /\ allExit0 = TRUE
  /\ thrown = ""
  /\ InitBuildIdle
  /\ InitAdapterIdle
  /\ fnIn = NoArgument
  /\ fnOut = NoReturns

\* executeEmulatedHook(toolName, args) up to the handler loops, on the
\* locals of one call
Called(c) ==
  LET event == ProbeEvent(c.toolName)
      m == matchingHooks(hooks, event, c.args)
      pos == LoopPos(hooks, m, 1, 1)
  IN IF FilterThrows(hooks, event, c.args)
       THEN [NotCalled EXCEPT !.pc = "thrown", !.call = c]
       ELSE [NotCalled EXCEPT
               !.call = c, !.matching = m, !.hi = pos[1], !.hj = pos[2],
               !.pc = IF m = <<>> \/ pos[1] > Len(m) THEN "returned" ELSE "loop",
               !.result = IF m = <<>> THEN Res(TRUE, "No matching hooks", Undefined)
                          ELSE IF pos[1] > Len(m) THEN Res(TRUE, Undefined, Undefined)
                          ELSE NoResult]

\* the locals of a call after `await this.executeHandler(...)` delivers r
\* for a handler that spawned process o
ResumedUnlessBusy(v, r, o) ==
  LET pos == LoopPos(hooks, v.matching, v.hi, v.hj + 1)
      done == [v EXCEPT !.finished = @ + 1, !.proc = NoProc, !.outcomes = Append(@, o)]
  IN IF \E j \in DOMAIN invs : invs[j] # v /\ invs[j].pc = "await"
       THEN [done EXCEPT !.pc = "returned", !.result = Res(TRUE, "Engine busy", Undefined)]
       ELSE IF ~r.allowed
         THEN [done EXCEPT !.pc = "returned", !.result = r]
         ELSE IF pos[1] > Len(v.matching)
           THEN [done EXCEPT !.hi = pos[1], !.hj = pos[2], !.pc = "returned",
                             !.result = Res(TRUE, Undefined, Undefined)]
           ELSE [done EXCEPT !.hi = pos[1], !.hj = pos[2], !.pc = "loop"]
Resumed(v, r, o) ==
  LET pos == LoopPos(hooks, v.matching, v.hi, v.hj + 1)
      done == [v EXCEPT !.finished = @ + 1, !.proc = NoProc, !.outcomes = Append(@, o)]
  IN IF ~r.allowed
       THEN [done EXCEPT !.pc = "returned", !.result = r]
       ELSE IF pos[1] > Len(v.matching)
         THEN [done EXCEPT !.hi = pos[1], !.hj = pos[2], !.pc = "returned",
                           !.result = Res(TRUE, Undefined, Undefined)]
         ELSE [done EXCEPT !.hi = pos[1], !.hj = pos[2], !.pc = "loop"]

Unshared == UNCHANGED <<hookVars, hooks0, buildVars, adapterVars, pureVars>>

\* the locals of a call that runs on from its handler loops without
\* yielding: at position "loop" it enters executeHandler for the handler it
\* has reached, which runs up to its first await or its return
Entered(v) ==
  IF v.pc # "loop" THEN {v}
  ELSE LET w == [v EXCEPT !.started = @ + 1]
           h == hooks[w.matching[w.hi]].handlers[w.hj]
       IN IF IsCommand(h)
            THEN {[w EXCEPT !.pc = "settled"]}
                 \cup { [w EXCEPT !.proc = b, !.pc = "await"] : b \in EngineProcBehaviours }
            ELSE {[w EXCEPT !.pc = "settled"]}

\* one more call of executeEmulatedHook is made while others are in flight;
\* it runs up to the first await
ProbeInvoked ==
  \E i \in Invocations, c \in EngineCalls :
    /\ invs[i].pc = "idle"
    /\ \E w \in Entered(Called(c)) : invs' = [invs EXCEPT ![i] = w]
    /\ Unshared

\* the child process a call awaits exits
ProbeHandlerExits ==
  \E i \in Invocations :
    /\ invs[i].pc = "await"
    /\ invs[i].proc.exits
    /\ invs' = [invs EXCEPT ![i].pc = "stdout"]
    /\ Unshared

\* the text of stdout arrives for a call
ProbeStdoutRead ==
  \E i \in Invocations :
    /\ invs[i].pc = "stdout"
    /\ invs' = [invs EXCEPT ![i].pc = IF invs[i].proc.code = 2 THEN "stderr" ELSE "settled"]
    /\ Unshared

\* the text of stderr arrives for a call
ProbeStderrRead ==
  \E i \in Invocations :
    /\ invs[i].pc = "stderr"
    /\ invs' = [invs EXCEPT ![i].pc = "settled"]
    /\ Unshared

\* the promise of executeHandler is delivered to a call, which resumes and
\* runs up to its next await or its return
ProbeHandlerReturns ==
  \E i \in Invocations :
    /\ invs[i].pc = "settled"
    /\ LET v == invs[i]
           h == hooks[v.matching[v.hi]].handlers[v.hj]
       IN \E w \in Entered(Resumed(v, Settled(h, v.proc), v.proc)) :
            invs' = [invs EXCEPT ![i] = w]
    /\ Unshared

\* getEmulationTools() is called while calls are in flight
ToolsListed ==
  /\ invs # <<>>
  /\ ~emuTools.called
  /\ emuTools' = [called |-> TRUE, tools |-> getEmulationTools(hooks)]
  /\ UNCHANGED <<hooks, pc, call, matching, hi, hj, proc, result, started,
                 finished, exit2, failed, allExit0, thrown>>
  /\ UNCHANGED <<buildVars, adapterVars, pureVars, concVars>>

NextConcurrent ==
  \/ ProbeInvoked
  \/ ProbeHandlerExits
  \/ ProbeStdoutRead
  \/ ProbeStderrRead
  \/ ProbeHandlerReturns
  \/ ToolsListed

SpecConcurrent == InitConcurrent /\ [][NextConcurrent]_vars

-----------------------------------------------------------------------------
(* Library functions called directly on bounded inputs                     *)

TnRead  == <<"R","e","a","d">>
TnGrep  == <<"G","r","e","p">>
TnGlob  == <<"G","l","o","b">>
TnEdit  == <<"E","d","i","t">>
TnWrite == <<"W","r","i","t","e">>
TnBash  == <<"B","a","s","h">>
ToolNames == { TnRead, TnGrep, TnGlob, TnEdit, TnWrite, TnBash }

MaxTools == 2

ToolNameLists == UNION { [1..n -> ToolNames] : n \in 0..MaxTools }

\* the white space a flat list puts between two names
Separators == { <<" ">>, <<"\t">>, <<"\n", " ">> }

\* Array.prototype.join(sep)
RECURSIVE JoinWords(_, _)
JoinWords(ws, sep) ==
  IF ws = <<>> THEN <<>>
  ELSE IF Len(ws) = 1 THEN ws[1]
  ELSE ws[1] \o sep \o JoinWords(Tail(ws), sep)

\* a metadata block giving the tool names as a space-delimited string
FlatBlock(names, sep) ==
  Obj(Meta(NmLint, ShortText) @@ Prop("allowed-tools", Str(JoinWords(names, sep))))

\* a metadata block giving the tool names as the structured allow list
StructuredBlock(names) ==
  Obj(Meta(NmLint, ShortText)
      @@ Prop("tools", Obj(Prop("allowed", Arr(MapSeq(Wrap, names))))))

GoodMeta == Meta(NmLint, ShortText)
CommandEntryObj == Obj([type |-> Lit("command"), command |-> Lit("eslint .")])

\* handlers lists, well formed and malformed
HandlerLists ==
  { <<CommandEntryObj>>, <<Obj(Prop("type", Lit("prompt")))>>, <<Lit("eslint .")>>,
    <<Num(1)>>, <<Null>>, <<CommandEntryObj, Null>>, <<Undef>>, <<>> }

\* values of every type given to the validators
ValueSamples ==
  { Undef, Null, Lit("text"), Num(1), Bool(TRUE), Arr(<<>>), Obj(NoProps),
    Obj(GoodMeta), Obj(Meta(NmUpper, ShortText)),
    Obj(GoodMeta @@ Prop("version", Lit("1.0.0"))),
    Obj(GoodMeta @@ [invocation |-> Obj(Prop("userInvocable", Lit("yes"))),
                     context |-> Obj(Prop("mode", Lit("detached")))]),
    Obj(GoodMeta @@ [permissionMode |-> Num(1), memory |-> Null, maxTurns |-> Num(0)]),
    Obj(GoodMeta @@ Prop("maxTurns", Frac(5, -1))),
    Obj(GoodMeta @@ Prop("maxTurns", Frac(25, -1))),
    Obj(GoodMeta @@ Prop("maxTurns", NaN)),
    Obj(GoodMeta @@ Prop("maxTurns", Infinity(-1))),
    Obj(GoodMeta @@ [parameters |-> Obj(Prop("type", Lit("object"))),
                     implementation |-> Obj(Prop("type", Lit("script")))]),
    Obj(GoodMeta @@ [parameters |-> Null, implementation |-> Lit("eslint")]),
    Obj(GoodMeta @@ Prop("permissions", Obj([allow |-> Lit("Read"), deny |-> Arr(<<>>)]))),
    Obj(GoodMeta @@ Prop("permissions", Null)),
    Obj(GoodMeta @@ [event |-> Str(EvPreToolUse), handlers |-> Lit("eslint ."),
                     fallback |-> Obj(Prop("strategy", Lit("retry")))]) }
  \cup { Obj(GoodMeta @@ [event |-> Str(EvPreToolUse), handlers |-> Arr(hs)]) :
           hs \in HandlerLists }

\* hook lists carrying one or two of the canonical events
EventHookLists ==
  { << MkHook(e, NoMatcher, <<CommandHandler>>),
       MkHook(o, NoMatcher, <<CommandHandler>>),
       MkHook(e, MEdit, <<CommandHandler>>) >> : e, o \in VALID_HOOK_EVENTS }

\* what executeEmulatedHook derives from each listed probe name, called
\* without arguments: the event and the hooks it selects
SelectedBy(hs, tools) ==
  [k \in DOMAIN tools |->
     [event |-> ProbeEvent(tools[k].name),
      matching |-> matchingHooks(hs, ProbeEvent(tools[k].name), NoArgs)]]

\* a tool list of an agent: not declared, or an array of tool names
ToolLists == { Undef } \cup { Arr(MapSeq(Wrap, ns)) : ns \in ToolNameLists }

\* agents declaring allowed and disallowed tools in every combination
AgentSamples ==
  { Obj([metadata |-> Obj(GoodMeta), instructions |-> Lit("Body."),
         tools |-> Obj([allowed |-> al, disallowed |-> dl])]) :
      al \in ToolLists, dl \in ToolLists }
  \cup { Obj([metadata |-> Obj(GoodMeta), instructions |-> Lit("Body."), tools |-> Undef]) }

\* what a call of a validator produces: a ValidationResult, or an exception
Outcome(throws, value) ==
  IF throws THEN [threw |-> TRUE] ELSE [threw |-> FALSE, value |-> value]

InitPure ==
  /\ fnIn \in { [kind |-> "tool names", names |-> ns, sep |-> sp] :
                  ns \in ToolNameLists, sp \in Separators }
             \cup { [kind |-> "hooks", hooks |-> hs] : hs \in EventHookLists }
             \cup { [kind |-> "agent", agent |-> a] : a \in AgentSamples }
             \cup { [kind |-> "value", value |-> v] : v \in ValueSamples }
  /\ fnOut = NoReturns
  /\ InitConcIdle
  /\ InitHookIdle
  /\ InitBuildIdle
  /\ InitAdapterIdle

Returned(f) == f \in DOMAIN fnOut

\* one call of a function on the argument; each function is called once
Returns(f, v) ==
  /\ f \notin DOMAIN fnOut
  /\ fnOut' = fnOut @@ (f :> v)
  /\ UNCHANGED fnIn
  /\ UNCHANGED <<hookVars, buildVars, adapterVars, concVars>>

ParseSkillFlat ==
  /\ fnIn.kind = "tool names"
  /\ Returns("parseSkill flat", parseSkill(FlatBlock(fnIn.names, fnIn.sep), Lit("Body.")))

ParseSkillStructured ==
  /\ fnIn.kind = "tool names"
  /\ Returns("parseSkill structured", parseSkill(StructuredBlock(fnIn.names), Lit("Body.")))

ParseAgentFlat ==
  /\ fnIn.kind = "tool names"
  /\ Returns("parseAgent flat", parseAgent(FlatBlock(fnIn.names, fnIn.sep), Lit("Body.")))

ParseAgentStructured ==
  /\ fnIn.kind = "tool names"
  /\ Returns("parseAgent structured", parseAgent(StructuredBlock(fnIn.names), Lit("Body.")))

ValidateManifest ==
  /\ fnIn.kind = "value"
  /\ Returns("validateManifest", Outcome(FALSE, validateManifest(fnIn.value)))

ValidateSkill ==
  /\ fnIn.kind = "value"
  /\ Returns("validateSkill", Outcome(FALSE, validateSkill(fnIn.value)))

ValidateAgent ==
  /\ fnIn.kind = "value"
  /\ Returns("validateAgent", Outcome(FALSE, validateAgent(fnIn.value)))

ValidateHook ==
  /\ fnIn.kind = "value"
  /\ Returns("validateHook",
             Outcome(validateHookThrows(fnIn.value), validateHook(fnIn.value)))

ValidateTool ==
  /\ fnIn.kind = "value"
  /\ Returns("validateTool", Outcome(FALSE, validateTool(fnIn.value)))

ValidatePolicy ==
  /\ fnIn.kind = "value"
  /\ Returns("validatePolicy", Outcome(FALSE, validatePolicy(fnIn.value)))

ListProbes ==
  /\ fnIn.kind = "hooks"
  /\ Returns("getEmulationTools", getEmulationTools(fnIn.hooks))

InvokeListedProbes ==
  /\ fnIn.kind = "hooks"
  /\ Returned("getEmulationTools")
  /\ Returns("executeEmulatedHook", SelectedBy(fnIn.hooks, fnOut["getEmulationTools"]))

MapToolGroups ==
  /\ fnIn.kind = "agent"
  /\ Returns("mapToolGroups", mapToolGroups(fnIn.agent))

NextPure ==
  \/ MapToolGroups
  \/ ListProbes
  \/ InvokeListedProbes
  \/ ValidateManifest
  \/ ValidateSkill
  \/ ValidateAgent
  \/ ValidateHook
  \/ ValidateTool
  \/ ValidatePolicy
  \/ ParseSkillFlat
  \/ ParseSkillStructured
  \/ ParseAgentFlat
  \/ ParseAgentStructured

SpecPure == InitPure /\ [][NextPure]_vars

-----------------------------------------------------------------------------
(* Properties of resolution and compilation                                *)

\* the component files resolveExtension discovered in the directory it was given
Discovered ==
  { f \in disk0.files :
      LET found == discoverComponents(disk0, Get(manifest, KindField(f.kind)), f.kind)
      IN \E k \in DOMAIN found : found[k] = f }

ValidationErrors(kind, comp) == Validate(kind, ValidatorInput(kind, comp)).errors

\* the text of a file of the directory that parseMarkdownFile hands on to
\* matter() and the parser under the options of the call
Read(f) == AfterParse(f, opts.fixYamlDescriptions)

\* resolveExtension reads h before f: the kinds in their order, the files
\* of a kind in ascending order of path
ReadEarlier(h, f) ==
  LET ix(kind) == CHOOSE k \in DOMAIN Kinds : Kinds[k] = kind
  IN \/ ix(h.kind) < ix(f.kind)
     \/ h.kind = f.kind /\ StrLess(PathKey(h), PathKey(f))

\* the texts matter() had been given when the call of resolveExtension that
\* has ended read f: in a second call all those of the first, in a first
\* call those of the files read before f
GivenBefore(f) ==
  IF "resolveExtension" \in DOMAIN fnOut THEN matterCache
  ELSE { TextOf(Read(h)) : h \in { g \in Discovered : ReadEarlier(g, f) } }

\* reading the file throws, or its validator returns an error
FaultyText(f, cache) ==
  \/ FileThrows(f, cache)
  \/ ValidationErrors(f.kind, ParseFile(f)) # <<>>
Faulty(f) == FaultyText(Read(f), GivenBefore(f))

ErrorRecordedFor(f) ==
  \E i \in DOMAIN errors : errors[i].severity = "error" /\ errors[i].file = FileId(f)

InIR(f) ==
  /\ ~FileThrows(Read(f), GivenBefore(f))
  /\ \E k \in DOMAIN ir[KindField(f.kind)] :
       ir[KindField(f.kind)][k] = ParseFile(Read(f))

\* C1: when resolveExtension returns, every discovered component file whose
\* parser threw or whose validator returned an error has an error finding
\* and its component is not in the IR, and every other discovered file's
\* component is in the IR.
C1_FaultyComponentExcluded ==
  rpc = "returned" =>
    \A f \in Discovered :
      IF Faulty(f) THEN ErrorRecordedFor(f) /\ ~InIR(f) ELSE InIR(f)

\* the hooks a skill or an agent of the IR holds in its hooks list
HeldHooks(comp) ==
  IF IsArray(Get(comp, "hooks")) THEN Get(comp, "hooks").items ELSE <<>>

ComponentPasses(kind, comp) ==
  /\ ValidationErrors(kind, comp) = <<>>
  /\ \A j \in DOMAIN HeldHooks(comp) : ValidationErrors("hook", HeldHooks(comp)[j]) = <<>>

\* C2: when resolveExtension returns valid = true, every component of the
\* IR, and every hook held in a skill's or agent's hooks list, passes the
\* validator of its kind with no error.
C2_ValidMeansAllPass ==
  (rpc = "returned" /\ valid) =>
    \A n \in DOMAIN Kinds :
      \A k \in DOMAIN ir[KindField(Kinds[n])] :
        ComponentPasses(Kinds[n], ir[KindField(Kinds[n])][k])

\* C3: resolveExtension throws only when the directory has no manifest file.
C3_ThrowsOnlyWithoutManifest ==
  rpc = "thrown" => (~disk0.manifest.exists /\ ~disk0.yml.exists)

\* C4: when compile throws for an unsupported target or for a resolution
\* with an error finding, the disk is as it was before the call and no
\* target adapter has run.
C4_FailedCompileLeavesDisk ==
  (cpc = "thrown" /\ failure \in {"Unknown target", "Extension validation failed",
                                  "TypeError: target.compile is not a function"}) =>
    (disk = disk0 /\ adapterRuns = 0)

\* the place compile writes an output file to
WrittenTo(path) ==
  [base |-> IF opts.outDir = "" THEN "<sourceDir>/dist/" \o opts.target ELSE opts.outDir,
   path |-> path]

\* C18: when compile has succeeded with dryRun, no file on disk differs from
\* before the call; when it has succeeded without dryRun, every file of the
\* adapter's file map is on disk under outDir, or under the target's
\* directory of the source tree if outDir is not given.
C18_DryRunWritesNothing ==
  cpc = "done" =>
    IF opts.dryRun
      THEN disk = disk0
      ELSE \A k \in DOMAIN outFiles : WrittenTo(outFiles[k]) \in disk.out

FindingsOf(f, severity) ==
  { i \in DOMAIN errors : errors[i].file = FileId(f) /\ errors[i].severity = severity }

ErrorFindings == { i \in DOMAIN errors : errors[i].severity = "error" }

\* the directory holds files of one kind only, exactly one of them with a
\* metadata block that cannot be parsed and the others free of errors, and
\* the manifest is free of errors
OneUnparsableFile ==
  /\ validateManifest(ManifestRead(disk0).doc).errors = <<>>
  /\ Cardinality({ f \in disk0.files : NotYaml(Read(f)) }) = 1
  /\ \A f, g \in disk0.files : f.kind = g.kind
  /\ \A f \in disk0.files : ~NotYaml(Read(f)) => ~Faulty(f)

\* C19: for a directory with one unparsable component file and N error-free
\* sibling files of the same kind, resolveExtension returns exactly one
\* error finding and N components of that kind.
C19_OneErrorAndSiblingsKept ==
  (rpc = "returned" /\ OneUnparsableFile) =>
    /\ Cardinality(ErrorFindings) = 1
    /\ \A f \in disk0.files :
         Len(ir[KindField(f.kind)]) = Cardinality(disk0.files) - 1

\* one unparsable file that sorts before its one sibling, resolved
C19_Witness ==
  /\ rpc = "returned"
  /\ OneUnparsableFile
  /\ Cardinality(disk0.files) = 2
  /\ \E f, g \in disk0.files : NotYaml(Read(f)) /\ StrLess(PathKey(f), PathKey(g))

\* a skill file with no error and no validator warning whose declared name
\* is not the name of its directory
MismatchedSkill(f) ==
  /\ f.kind = "skill"
  /\ ~Faulty(f)
  /\ Validate("skill", ValidatorInput("skill", ParseFile(Read(f)))).warnings = <<>>
  /\ Get(f.fm, "name") # Str(f.dir)

\* C20: for a skill file that is clean except that its declared name differs
\* from its directory's name, resolveExtension records exactly one warning
\* and no error, the skill is in the IR, and valid is what the other
\* findings make it.
C20_NameMismatchIsWarning ==
  rpc = "returned" =>
    \A f \in Discovered :
      MismatchedSkill(f) =>
        /\ Cardinality(FindingsOf(f, "warning")) = 1
        /\ FindingsOf(f, "error") = {}
        /\ InIR(f)
        /\ valid = ({ i \in ErrorFindings : errors[i].file # FileId(f) } = {})

\* a mismatched skill and a sibling resolved into a valid IR
C20_Witness ==
  /\ rpc = "returned"
  /\ valid
  /\ Cardinality(disk0.files) = 2
  /\ \E f \in Discovered : MismatchedSkill(f)

\* the skill artifacts in the file map the adapter returned
SkillArtifacts ==
  { k \in DOMAIN outFiles :
      \E n \in DOMAIN ir.skills :
        outFiles[k] = OutPath(<<".","k","i","l","o","c","o","d","e","/","s","k","i","l","l","s","/">>, NameOf(ir.skills[n]), SkillMd) }

\* C29: in the adapter compile of an IR obtained from a valid resolution no
\* output path is assigned twice: the paths of the file map are pairwise
\* distinct and there are as many skill artifacts as the IR has skills.
C29_NoPathAssignedTwice ==
  (adapterRuns > 0 /\ failure # AdapterRaised) =>
    /\ \A k, l \in DOMAIN outFiles : k # l => outFiles[k] # outFiles[l]
    /\ Cardinality(SkillArtifacts) = Len(ir.skills)

\* C26: when writing an output file fails during a compile without dryRun,
\* compile throws, the files before it in the adapter's file order are on
\* disk and neither it nor any file after it has been written.
C26_WriteFailureAborts ==
  (cpc = "thrown" /\ failure = "write failed") =>
    /\ ~opts.dryRun
    /\ \A k \in DOMAIN outFiles :
         WrittenTo(outFiles[k]) \in disk.out <=> k < wi

\* a write failed with a file written before it and a file still to write
C26_Witness ==
  /\ cpc = "thrown"
  /\ failure = "write failed"
  /\ 1 < wi
  /\ wi < Len(outFiles)

\* the second of two calls of resolveExtension has ended
ResolvedTwice == "resolveExtension" \in DOMAIN fnOut /\ rpc \in {"returned", "thrown"}

RECURSIVE ComponentsInOrder(_)
ComponentsInOrder(fs) ==
  IF fs = <<>> THEN <<>>
  ELSE FileComponents(Read(Head(fs)), GivenBefore(Head(fs))) \o ComponentsInOrder(Tail(fs))

\* the list of a kind holds the components of the discovered files of that
\* kind in ascending order of source path
InAscendingPathOrder(kind) ==
  LET found == { f \in Discovered : f.kind = kind }
  IN \E fs \in [1..Cardinality(found) -> found] :
       /\ \A i, j \in DOMAIN fs : i < j => StrLess(PathKey(fs[i]), PathKey(fs[j]))
       /\ ir[KindField(kind)] = ComponentsInOrder(fs)

\* C23: resolving the same directory twice, with no change to the file
\* system by anyone else, gives the same result both times for every value
\* of the fix option, and every per-kind list is in ascending order of
\* source path.
C23_ResolveTwiceSameResult ==
  ResolvedTwice =>
    /\ ResolveResult = fnOut["resolveExtension"]
    /\ rpc = "returned" => \A k \in DOMAIN Kinds : InAscendingPathOrder(Kinds[k])

-----------------------------------------------------------------------------
(* Properties of the target adapters                                       *)

\* the compile calls of a target, in call order, that returned an output
Completed(t) == { k \in DOMAIN outs[t] : ~outs[t][k].threw }

\* the fallback strategy a hook of the IR declares (Undef if none)
StrategyOf(hook) == Get(Get(hook, "fallback"), "strategy")

HooksWithStrategy(strategy) ==
  { k \in DOMAIN tir.hooks : StrategyOf(tir.hooks[k]) = Lit(strategy) }

RequirementsFor(out, feature) ==
  { k \in DOMAIN out.runtimeRequirements : out.runtimeRequirements[k].feature = feature }

\* artifacts that bind hooks natively in a host
NativeHookArtifacts == { "settings", "hooks-plugin" }

\* C12: every KiloCode compile of an IR that has a hook with fallback
\* strategy mcp-tool that returns an output returns a hook-engine
\* requirement and emits no native hook artifact.
C12_McpToolHookRequiresEngine ==
  \A k \in Completed("kilocode") :
    HooksWithStrategy("mcp-tool") # {} =>
      /\ RequirementsFor(outs["kilocode"][k], "hook-engine") # {}
      /\ \A n \in DOMAIN outs["kilocode"][k].files :
           outs["kilocode"][k].files[n].content.artifact \notin NativeHookArtifacts

C12_Witness ==
  /\ Completed("kilocode") # {}
  /\ HooksWithStrategy("mcp-tool") # {}
  /\ HooksWithStrategy("ignore") # {}

\* the output holds instructional text made from the hook
FoldedIntoText(out, hook) ==
  \E n \in DOMAIN out.files :
    /\ out.files[n].content.artifact \in {"skill", "rule", "policy-rules", "hook-instructions"}
    /\ "from" \in DOMAIN out.files[n].content
    /\ out.files[n].content.from = hook

\* C13: every KiloCode compile returns a hook-engine requirement exactly when
\* the IR has a hook with strategy mcp-tool, stating the number of those
\* hooks; folds every skill-injection hook into emitted instructional text;
\* and warns about hooks when it drops a hook with strategy ignore.
C13_HooksClassifiedByStrategy ==
  \A k \in Completed("kilocode") :
    LET out == outs["kilocode"][k]
    IN /\ (RequirementsFor(out, "hook-engine") # {}) <=> (HooksWithStrategy("mcp-tool") # {})
       /\ \A r \in RequirementsFor(out, "hook-engine") :
            out.runtimeRequirements[r].count = Cardinality(HooksWithStrategy("mcp-tool"))
       /\ \A h \in HooksWithStrategy("skill-injection") : FoldedIntoText(out, tir.hooks[h])
       /\ HooksWithStrategy("ignore") # {} =>
            \E w \in DOMAIN out.warnings : out.warnings[w].component = [kind |-> "hooks"]

\* the output holds a native artifact with an entry for the hook that
\* carries every handler of the hook
CarriedNatively(out, hook) ==
  \E n \in DOMAIN out.files :
    LET c == out.files[n].content
    IN \/ c.artifact = "settings" /\ hook \in Range(c.hooks)
       \/ /\ c.artifact = "hooks-plugin"
          /\ \E e \in Range(c.plugin.before) \cup Range(c.plugin.after) :
               e.hook = hook /\ Len(e.spawns) = Len(Get(hook, "handlers").items)

\* the output holds a warning about hooks
WarnsAboutHooks(out) ==
  \E w \in DOMAIN out.warnings :
    /\ "kind" \in DOMAIN out.warnings[w].component
    /\ out.warnings[w].component.kind \in {"hook", "hooks"}

\* C28: for each adapter and every hook of the IR, the output holds a
\* native artifact carrying the hook's handlers, or a hook-engine
\* requirement, or a warning about hooks.
C28_NoHookDroppedSilently ==
  \A t \in SupportedTargets : \A k \in Completed(t) : \A h \in DOMAIN tir.hooks :
    \/ CarriedNatively(outs[t][k], tir.hooks[h])
    \/ RequirementsFor(outs[t][k], "hook-engine") # {}
    \/ WarnsAboutHooks(outs[t][k])

\* the tools of the IR whose mcp exposure flag is not false
ExposedTools ==
  { k \in DOMAIN tir.tools : Get(Get(tir.tools[k], "exposure"), "mcp") # Bool(FALSE) }

\* C14: every output a compile of each of the three adapters returns holds
\* exactly one tool-server requirement, stating the number of exposed tools,
\* when the IR has a tool whose mcp exposure flag is not false, and none
\* otherwise.
C14_ToolServerRequirement ==
  \A t \in SupportedTargets : \A k \in Completed(t) :
    /\ Cardinality(RequirementsFor(outs[t][k], "tool-server"))
         = IF ExposedTools # {} THEN 1 ELSE 0
    /\ \A r \in RequirementsFor(outs[t][k], "tool-server") :
         outs[t][k].runtimeRequirements[r].count = Cardinality(ExposedTools)

\* OpenCode has compiled an IR with two tools of which one is exposed
C14_Witness ==
  /\ outs["opencode"] # <<>>
  /\ Len(tir.tools) = 2
  /\ Cardinality(ExposedTools) = 1
  /\ RequirementsFor(outs["opencode"][1], "tool-server") # {}

\* the patterns a policy declares in one of its lists
PolicyPatterns(policy, key) ==
  LET list == Get(Get(policy, "permissions"), key)
  IN IF IsArray(list) THEN list.items ELSE <<>>

\* the output holds a rule-text file for the policy with all its patterns
RenderedAsRules(out, policy) ==
  \E n \in DOMAIN out.files :
    /\ out.files[n].content.artifact = "policy-rules"
    /\ out.files[n].content.name = NameOf(policy)
    /\ \A key \in {"deny", "ask", "allow"} :
         out.files[n].content[key] = PolicyPatterns(policy, key)

WarnedAbout(out, policy) ==
  \E w \in DOMAIN out.warnings :
    out.warnings[w].component = [kind |-> "policy", name |-> NameOf(policy)]

RECURSIVE PatternsInOrder(_, _)
PatternsInOrder(policies, key) ==
  IF policies = <<>> THEN <<>>
  ELSE PolicyPatterns(Head(policies), key) \o PatternsInOrder(Tail(policies), key)

\* the permissions block of the settings file of a Claude output; the empty
\* lists if no block is emitted
PermissionsBlock(out) ==
  IF \E n \in DOMAIN out.files : out.files[n].content.artifact = "settings"
    THEN out.files[CHOOSE n \in DOMAIN out.files :
                     out.files[n].content.artifact = "settings"].content.permissions
    ELSE [allow |-> <<>>, deny |-> <<>>, ask |-> <<>>]

\* C15: every KiloCode and OpenCode compile renders each policy that declares
\* permission rules as a rule-text file holding all its patterns and warns
\* about it; every Claude compile emits, per list, the patterns of all
\* policies in policy order.
C15_PoliciesRenderedOrMerged ==
  /\ \A t \in {"kilocode", "opencode"} : \A k \in Completed(t) :
       \A p \in DOMAIN tir.policies :
         Truthy(Get(tir.policies[p], "permissions")) =>
           RenderedAsRules(outs[t][k], tir.policies[p]) /\ WarnedAbout(outs[t][k], tir.policies[p])
  /\ \A k \in Completed("claude") :
       \A key \in {"deny", "ask", "allow"} :
         PermissionsBlock(outs["claude"][k])[key] = PatternsInOrder(tir.policies, key)

HasFile(out, before, name, after) ==
  \E n \in DOMAIN out.files : out.files[n].path = OutPath(before, name, after)

UserInvocable(skill) == Get(Get(skill, "invocation"), "userInvocable") # Bool(FALSE)

\* C16: every KiloCode and OpenCode compile emits SKILL.md for each skill
\* and, for each user-invocable skill, a slash-invocation file as well.
C16_SkillArtifacts ==
  /\ \A k \in Completed("kilocode") : \A n \in DOMAIN tir.skills :
       /\ HasFile(outs["kilocode"][k], <<".","k","i","l","o","c","o","d","e","/","s","k","i","l","l","s","/">>, NameOf(tir.skills[n]), SkillMd)
       /\ UserInvocable(tir.skills[n]) =>
            HasFile(outs["kilocode"][k], <<".","k","i","l","o","c","o","d","e","/","w","o","r","k","f","l","o","w","s","/">>, NameOf(tir.skills[n]), DotMd)
  /\ \A k \in Completed("opencode") : \A n \in DOMAIN tir.skills :
       /\ HasFile(outs["opencode"][k], <<".","o","p","e","n","c","o","d","e","/","s","k","i","l","l","s","/">>, NameOf(tir.skills[n]), SkillMd)
       /\ UserInvocable(tir.skills[n]) =>
            HasFile(outs["opencode"][k], <<".","o","p","e","n","c","o","d","e","/","c","o","m","m","a","n","d","s","/">>, NameOf(tir.skills[n]), DotMd)

-----------------------------------------------------------------------------
(* Properties of the library functions                                     *)

\* two ToolAccess values with the same allowed and disallowed lists; a
\* property that is absent and one that is undefined are not told apart,
\* as in the serialized form
SameToolAccess(a, b) ==
  /\ a.type = b.type
  /\ Get(a, "allowed") = Get(b, "allowed")
  /\ Get(a, "disallowed") = Get(b, "disallowed")

\* C21: for every list of tool names, the block giving it as a
\* space-delimited allowed-tools string and the block giving it as the
\* tools.allowed array are parsed into equal ToolAccess values, by parseSkill
\* and by parseAgent.
C21_BothConventionsParseEqual ==
  /\ (Returned("parseSkill flat") /\ Returned("parseSkill structured")) =>
       SameToolAccess(Get(fnOut["parseSkill flat"], "tools"),
                      Get(fnOut["parseSkill structured"], "tools"))
  /\ (Returned("parseAgent flat") /\ Returned("parseAgent structured")) =>
       SameToolAccess(Get(fnOut["parseAgent flat"], "tools"),
                      Get(fnOut["parseAgent structured"], "tools"))

\* the positions in hs of the hooks on an event
HooksOn(hs, event) ==
  LET OnEvent(i) == hs[i].event = event
  IN SelectSeq([i \in DOMAIN hs |-> i], OnEvent)

\* C25: for every canonical hook event, reversing the derivation of the
\* probe-operation name as executeEmulatedHook does yields the event the
\* name was derived from, distinct events get distinct names, and invoking
\* a listed probe operation selects exactly the hooks of its own event.
C25_ProbeNameRoundTrip ==
  Returned("executeEmulatedHook") =>
    LET tools == fnOut["getEmulationTools"]
        selected == fnOut["executeEmulatedHook"]
    IN /\ \A k \in DOMAIN tools :
            /\ tools[k].event \in VALID_HOOK_EVENTS
            /\ selected[k].event = tools[k].event
            /\ selected[k].matching = HooksOn(fnIn.hooks, tools[k].event)
       /\ \A k, l \in DOMAIN tools :
            tools[k].event # tools[l].event => tools[k].name # tools[l].name

\* two probes listed and invoked, one of them selecting two hooks
C25_Witness ==
  /\ Returned("executeEmulatedHook")
  /\ Len(fnOut["getEmulationTools"]) = 2
  /\ \E k \in DOMAIN fnOut["executeEmulatedHook"] :
       Len(fnOut["executeEmulatedHook"][k].matching) = 2

\* the tools an agent lists as disallowed
Disallowed(agent) == SetOf(Get(Get(agent, "tools"), "disallowed"))

DeclaresNoTools(agent) ==
  /\ Get(Get(agent, "tools"), "allowed") = Undef
  /\ Get(Get(agent, "tools"), "disallowed") = Undef

\* C30: the mode emitted for an agent grants no capability group one of
\* whose tools the agent disallows (read: Read, Grep, Glob; edit: Edit,
\* Write; command: Bash), and an agent declaring neither list gets all groups.
C30_DisallowedGroupNeverGranted ==
  Returned("mapToolGroups") =>
    LET groups == Range(fnOut["mapToolGroups"])
        denied == Disallowed(fnIn.agent)
    IN /\ {Str(TnRead), Str(TnGrep), Str(TnGlob)} \cap denied # {} => "read" \notin groups
       /\ {Str(TnEdit), Str(TnWrite)} \cap denied # {} => "edit" \notin groups
       /\ Str(TnBash) \in denied => "command" \notin groups
       /\ DeclaresNoTools(fnIn.agent) =>
            groups = {"read", "edit", "browser", "command", "mcp"}

Validators ==
  { "validateManifest", "validateSkill", "validateAgent", "validateHook",
    "validateTool", "validatePolicy" }

\* in a returned ValidationResult, valid is true exactly when errors is empty
ValidMeansNoErrors ==
  \A f \in Validators \cap DOMAIN fnOut :
    ~fnOut[f].threw => (fnOut[f].value.valid <=> fnOut[f].value.errors = <<>>)

\* C22: every validator returns a ValidationResult for every input value
\* and never throws, and in every result valid is true exactly when the
\* errors list is empty.
C22_ValidatorsNeverThrow ==
  /\ \A f \in Validators \cap DOMAIN fnOut : ~fnOut[f].threw
  /\ ValidMeansNoErrors

-----------------------------------------------------------------------------
(* Properties of the hook compensation engine                              *)

\* the handlers of the matched hooks in the order of the nested loops
RECURSIVE FlatHandlers(_, _, _)
FlatHandlers(hs, m, i) ==
  IF i > Len(m) THEN <<>>
  ELSE [j \in 1..Len(hs[m[i]].handlers) |-> <<m[i], j>>] \o FlatHandlers(hs, m, i + 1)

\* executeHandler's result for a handler that spawned process o
HandlerResult(h, o) ==
  IF ~IsCommand(h) THEN PassThroughResult
  ELSE IF ~o.spawned THEN RaiseResult
  ELSE ExitResult(o)

\* the result of the handler loops run alone over handlers hl with outcomes os
RECURSIVE AloneFrom(_, _, _)
AloneFrom(hl, os, k) ==
  IF k > Len(hl) THEN Res(TRUE, Undefined, Undefined)
  ELSE LET r == HandlerResult(hooks0[hl[k][1]].handlers[hl[k][2]], os[k])
       IN IF ~r.allowed THEN r ELSE AloneFrom(hl, os, k + 1)

\* the result of executeEmulatedHook(c.toolName, c.args) run alone on the
\* engine as constructed, its handlers having the outcomes os
AloneResult(c, os) ==
  LET m == matchingHooks(hooks0, ProbeEvent(c.toolName), c.args)
  IN IF m = <<>> THEN Res(TRUE, "No matching hooks", Undefined)
     ELSE AloneFrom(FlatHandlers(hooks0, m, 1), os, 1)

\* C24: with any number of probe invocations in flight on one engine, the
\* hook list is never modified, each invocation has at most one handler
\* outstanding, and each invocation returns the result it would return if
\* it ran alone with the same arguments and handler outcomes.
C24_InvocationsIndependent ==
  /\ invs # <<>> => hooks = hooks0
  /\ \A i \in DOMAIN invs :
       /\ invs[i].started - invs[i].finished \in {0, 1}
       /\ invs[i].pc = "returned" =>
            invs[i].result = AloneResult(invs[i].call, invs[i].outcomes)

\* a denied invocation that returned while another one was awaiting a handler
C24_Witness ==
  /\ invs # <<>>
  /\ emuTools.called
  /\ \E i, j \in DOMAIN invs :
       /\ invs[i].pc = "returned" /\ ~invs[i].result.allowed
       /\ invs[j].pc = "await" /\ invs[j].finished > 0

\* the events carried by a hook of the engine whose fallback strategy is
\* neither ignore nor skill-injection
EmulatedEvents ==
  { hooks[i].event : i \in { j \in DOMAIN hooks :
                               hooks[j].fallback \notin {"ignore", "skill-injection"} } }

ToolsFor(event) == { k \in DOMAIN emuTools.tools : emuTools.tools[k].event = event }

\* C11: when getEmulationTools returns, it has returned exactly one probe
\* operation for each event carried by a hook whose fallback strategy is
\* neither ignore nor skill-injection, none for any other event, and the
\* names of the returned operations (and of the probes of any two canonical
\* events) are pairwise distinct.
C11_OneProbePerEmulatedEvent ==
  (emuTools.called /\ pc = "idle") =>
    /\ \A ev \in VALID_HOOK_EVENTS :
         Cardinality(ToolsFor(ev)) = IF ev \in EmulatedEvents THEN 1 ELSE 0
    /\ \A k \in DOMAIN emuTools.tools : emuTools.tools[k].event \in EmulatedEvents
    /\ \A k, l \in DOMAIN emuTools.tools :
         k # l => emuTools.tools[k].name # emuTools.tools[l].name
    /\ \A e1, e2 \in VALID_HOOK_EVENTS :
         e1 # e2 => eventToSlug(e1) # eventToSlug(e2)

\* two hooks, one of them skipped for its fallback strategy, one probe returned
C11_Witness ==
  /\ emuTools.called
  /\ Len(hooks) = 2
  /\ Len(emuTools.tools) = 1
  /\ \E i \in DOMAIN hooks : hooks[i].fallback = "ignore"

\* the names of the probe operations getEmulationTools lists for the engine
ListedNames ==
  { getEmulationTools(hooks)[k].name : k \in DOMAIN getEmulationTools(hooks) }

\* C27: executeEmulatedHook never runs a handler of a hook whose fallback
\* strategy is ignore or skill-injection, and invoking a name that
\* getEmulationTools does not list runs no handler and returns allowed with
\* reason "No matching hooks".
C27_SkippedHooksNeverRun ==
  /\ \A k \in DOMAIN started :
       hooks[started[k][1]].fallback \notin {"ignore", "skill-injection"}
  /\ (pc = "returned" /\ call.toolName \notin ListedNames) =>
       /\ started = <<>>
       /\ result = Res(TRUE, "No matching hooks", Undefined)

\* C5: a probe invocation never throws or rejects, whatever the probe name,
\* the arguments and the hook list are.
C5_ProbeNeverRejects == pc # "thrown" /\ thrown = ""

\* C6: a handler runs only if its hook is on the probe's event and either
\* declares no matcher or its matcher matches the subject the caller
\* supplied; with no subject supplied a hook with a matcher is excluded.
C6_OnlyMatchingHooksRun ==
  \A k \in DOMAIN started :
    LET h == hooks[started[k][1]]
    IN /\ h.event = ProbeEvent(call.toolName)
       /\ \/ h.matcher = <<>>
          \/ /\ HasSubject(call.args)
             /\ ~RegExpThrows(h.matcher)
             /\ RegExpTest(h.matcher, call.args.toolName)

\* the positions at which a started handler's result has not been received
Outstanding == {"await", "stdout", "stderr", "settled"}

\* C7: handlers start one at a time in hook-list order then handler order,
\* each after the previous one completed; once a handler has signalled deny
\* (exit code 2) nothing more is started and the call has returned that denial.
C7_SequentialShortCircuit ==
  /\ Len(started) - finished \in {0, 1}
  /\ (Len(started) - finished = 1) <=> (pc \in Outstanding)
  /\ Len(started) <= Len(FlatHandlers(hooks, matching, 1))
  /\ \A k \in DOMAIN started : started[k] = FlatHandlers(hooks, matching, 1)[k]
  /\ exit2.spawned =>
       \/ pc \in Outstanding /\ proc = exit2
       \/ /\ pc = "returned"
          /\ finished = Len(started)
          /\ ~result.allowed
          /\ result.reason \in {exit2.stderr, exit2.stdout, "Hook blocked the action"}

C7_Witness ==
  /\ pc = "returned"
  /\ exit2.spawned
  /\ Len(started) >= 2
  /\ Len(started) < Len(FlatHandlers(hooks, matching, 1))

\* C8: when a command handler failed (exit code other than 0 and 2, or an
\* exception) and no handler denied, the invocation returns allowed = true
\* with a warning reason attached.
C8_FailureReturnsWarning ==
  (pc = "returned" /\ failed /\ ~exit2.spawned) =>
     (result.allowed /\ result.reason # Undefined)

\* C9: a handler exiting with code 2 makes the invocation return
\* allowed = false with reason stderr, else stdout, else the generic message;
\* an invocation all of whose handlers exited 0 returns allowed = true.
C9_ExitCodeDecides ==
  /\ exit2.spawned =>
       \/ pc \in Outstanding /\ proc = exit2
       \/ /\ pc = "returned"
          /\ result.allowed = FALSE
          /\ result.reason = (IF exit2.stderr # "" THEN exit2.stderr
                              ELSE IF exit2.stdout # "" THEN exit2.stdout
                              ELSE "Hook blocked the action")
  /\ (pc = "returned" /\ finished > 0 /\ allExit0) => result.allowed = TRUE

C9_Witness ==
  /\ pc = "returned"
  /\ exit2.spawned
  /\ exit2.stderr = "blocked"
  /\ exit2.stdout # ""
  /\ result = Res(FALSE, "blocked", Undefined)

\* C10: a probe invocation that is waiting for a handler process always
\* comes to return a result, whatever the process does.
C10_InvocationCompletes == (pc = "await") ~> (pc = "returned")

====
